---------------------------- MODULE Spec2Model ----------------------------
(***************************************************************************)
(* Compliance-deviation checking of the ITSM scripts.                      *)
(*                                                                         *)
(*  - ITSM-COMPLEX/run_itsm_analysis.py: DocumentRetrievalAgent and        *)
(*    DeviationAnalysisAgent (analyze_incident, analyze_change);           *)
(*  - ITSM-Multi_Agent/run_itsm_main_agent.py: GitHubDocumentAgent and     *)
(*    IntelligentAnalysisAgent (analyze_incident, predict_sla_breaches)    *)
(*    as main() drives them over incidents_data.csv;                       *)
(*  - Incident Management -ITSM/itsm_multiagent_rag.py:                    *)
(*    DeviationAnalysisAgent.analyze_process_deviations;                   *)
(*  - ITSM full implmentation - Jira/complete-itsm-agent-production.py:    *)
(*    IntelligentAnalysisAgent.analyze_incident_compliance.                *)
(*                                                                         *)
(* Conventions.  Time is counted in quarter hours (the finest SLA of the   *)
(* rule table is 0.25 h), so 4 h is 16, 12 h is 48, 48 h is 192, 96 h is   *)
(* 384 and the 2 h risk window is 8.  A text is a sequence of symbols; the *)
(* symbol Sep stands for the three characters ' | ' that the CSV columns   *)
(* Steps_Completed and Obtained_Approvals use between names, so a name is  *)
(* a sequence of symbols too.  A letter symbol is one character; a symbol  *)
(* of several characters (a role name) stands for that run of characters.  *)
(* A missing CSV cell is "NaN", the float pandas.read_csv puts there; the   *)
(* empty text <<>> in a text column is such a cell, and .split of it       *)
(* raises AttributeError.                                                  *)
(***************************************************************************)
EXTENDS Integers, Sequences, FiniteSets, TLC

VARIABLES
    incident_rules,   \* DocumentRetrievalAgent.incident_rules
    change_rules,     \* DocumentRetrievalAgent.change_rules
    github_rules,     \* GitHubDocumentAgent.incident_rules and .change_rules
    rules_db,         \* DocumentRetrievalAgent.rules_db, itsm_multiagent_rag.py
    incidents_data,   \* DeviationAnalysisAgent.incidents_data, itsm_multiagent_rag.py
    jira_rules,       \* GitHubRulesAgent.incident_rules, complete-itsm-agent-production.py
    csv_incidents_df, \* DataCollectionAgent.csv_incidents_df, the same script
    op,               \* the evaluator call that has just returned, or "idle"
    incident,         \* the pandas row handed to analyze_incident
    change,           \* the pandas row handed to analyze_change
    result,           \* what the call returned, or the exception it raised
    pc,               \* where main() of run_itsm_main_agent.py stands
    incidents_df,     \* main(): pd.read_csv('incidents_data.csv')
    changes_df,       \* main(): pd.read_csv('changes_data.csv')
    incident_results, \* main(): the results of the incidents analyzed so far
    change_results,   \* main(): the results of the changes analyzed so far
    current_time,     \* predict_sla_breaches: datetime.now()
    at_risk,          \* main(): what predict_sla_breaches returned
    manager_data,     \* send_manager_reports: the results by manager_email
    jira_change_rules, \* GitHubRulesAgent.change_rules, complete-itsm-agent-production.py
    csv_changes_df,   \* DataCollectionAgent.csv_changes_df
    jira_incidents,   \* DataCollectionAgent.jira_incidents
    incident_devs,    \* the script's incident_devs
    change_devs,      \* the script's change_devs
    reports,          \* send_professional_reports: mgr_incidents and mgr_changes by manager
    sent,             \* the addresses an email was delivered to
    fetched,          \* the records the REST call of a connector returned
    results,          \* DeviationAnalysisAgent.results, run_itsm_analysis.py
    historical_data,  \* IntelligentAnalysisAgent.historical_data, run_itsm_main_agent.py
    attempts,         \* the SMTP exchanges begun, in order, each with how it ended
    runs,             \* scheduler.py: the scheduled runs started so far
    run_steps,        \* scheduler.py: what the current run has done so far
    agent_data,       \* ITSMProcessDeviationAgent.data, itsm_agent_complete.py
    count,            \* create_sample_incidents: the number of incidents asked for
    posted,           \* create_sample_incidents: how each POST made so far ended
    created_count,    \* create_sample_incidents: created_count
    failed_count      \* create_sample_incidents: failed_count

vars ==
    <<incident_rules, change_rules, github_rules, rules_db, incidents_data,
      jira_rules, csv_incidents_df, op, incident, change, result,
      pc, incidents_df, changes_df, incident_results, change_results,
      current_time, at_risk, manager_data, jira_change_rules, csv_changes_df,
      jira_incidents, incident_devs, change_devs, reports, sent, fetched, results,
      historical_data, attempts, runs, run_steps, agent_data, count, posted,
      created_count, failed_count>>

rules == <<incident_rules, change_rules, github_rules, rules_db>>

\* the fields of the two analysis agents besides doc_agent
agent_fields == <<results, historical_data>>

\* the variables of complete-itsm-agent-production.py
jira_vars ==
    <<jira_rules, jira_change_rules, csv_incidents_df, csv_changes_df, jira_incidents,
      incident_devs, change_devs, reports, sent, attempts, fetched>>

\* what the script's data agent fetched from Jira, and what its reporting builds
jira_data == <<csv_changes_df, jira_incidents, fetched>>
report_vars == <<incident_devs, change_devs, reports, sent, attempts>>

\* the variables of scheduler.py
scheduler_vars == <<runs, run_steps>>

\* the variables of create_sample_incidents of the two Jira sample data creators
creator_vars == <<count, posted, created_count, failed_count>>

\* what no script but itsm_agent_complete.py and the sample data creators touches
tool_vars == <<agent_data, creator_vars>>

\* the call in hand
call_vars == <<op, incident, change, result>>

\* the variables of main() of run_itsm_main_agent.py
main_vars ==
    <<pc, incidents_df, changes_df, incident_results, change_results,
      current_time, at_risk, manager_data>>

-----------------------------------------------------------------------------
(* Bounds of the model *)

\* longest Steps_Completed text, in symbols
MaxTextLen == 3
\* most names in an Obtained_Approvals text
MaxApprovals == 2
\* most rows of a file main() of run_itsm_analysis.py reads
MaxComplexRows == 3
\* most required steps a generated Steps_Completed text leaves out
MaxDropped == 2
\* most rows of the incidents file of itsm_multiagent_rag.py
MaxRagRows == 1
\* most rows of incidents_data.csv when main() runs
MaxRows == 2
\* most rows of the incidents_data.csv complete-itsm-agent-production.py loads
MaxJiraRows == 1
\* most scheduled runs of scheduler.py
MaxRuns == 2
\* most incidents create_sample_incidents is asked for
MaxCount == 2
\* most rows of changes_data.csv when main() runs
MaxChangeRows == 1
\* largest Reassignment_Count tried
MaxReassign == 3

-----------------------------------------------------------------------------
(* Texts: str.split, str.lower, list membership *)

Sep == "|"

\* every sequence over S of length at most n
SeqUpTo(S, n) == UNION {[1..k -> S] : k \in 0..n}

HasSep(t) == \E i \in 1..Len(t) : t[i] = Sep

FirstSep(t) == CHOOSE i \in 1..Len(t) : t[i] = Sep /\ \A j \in 1..(i-1) : t[j] # Sep

\* str.split(' | '): the pieces between separators; one (empty) piece for ''
RECURSIVE Split(_)
Split(t) ==
    IF HasSep(t)
    THEN <<SubSeq(t, 1, FirstSep(t) - 1)>> \o Split(SubSeq(t, FirstSep(t) + 1, Len(t)))
    ELSE <<t>>

\* sep.join(names)
RECURSIVE JoinWith(_, _)
JoinWith(names, sep) ==
    IF Len(names) = 0 THEN <<>>
    ELSE IF Len(names) = 1 THEN names[1]
    ELSE names[1] \o <<sep>> \o JoinWith(Tail(names), sep)

\* ' | '.join(names)
Join(names) == JoinWith(names, Sep)

\* str.lower(): of the letters a text may hold, A is the upper-case one
Lower(text) == [i \in DOMAIN text |-> IF text[i] = "A" THEN "a" ELSE text[i]]

\* a in b, of two strings: a is a run of consecutive symbols of b
IsInfix(a, b) == \E k \in 0..(Len(b) - Len(a)) : SubSeq(b, k + 1, k + Len(a)) = a

\* x in list
InListMutantIgnoreCase(x, list) == \E i \in 1..Len(list) : Lower(list[i]) = Lower(x)

InListMutantSubstring(x, list) == \E i \in 1..Len(list) : IsInfix(x, list[i])

InList(x, list) == \E i \in 1..Len(list) : list[i] = x

\* the first of the lists that is not empty, the empty list if there is none
RECURSIVE FirstNonEmpty(_)
FirstNonEmpty(lists) ==
    IF lists = <<>> THEN <<>>
    ELSE IF Head(lists) # <<>> THEN Head(lists)
    ELSE FirstNonEmpty(Tail(lists))

\* [s for s in required if s not in completed]: keeps the order of required
NotInMutantReversed(required, completed) ==
    LET kept == SelectSeq(required, LAMBDA s : ~InList(s, completed))
    IN  [i \in 1..Len(kept) |-> kept[Len(kept) + 1 - i]]

NotIn(required, completed) ==
    SelectSeq(required, LAMBDA s : ~InList(s, completed))


-----------------------------------------------------------------------------
(* Cells of a pandas row *)

\* a date cell: a timestamp string, the NaN of an empty CSV cell, or ''.  A
\* timestamp is written to the second: s seconds after quarter hour t
SecondsPerQuarter == 900

Timestamp(t) == [kind |-> "ts", t |-> t, s |-> 0]
TimestampSec(t, s) == [kind |-> "ts", t |-> t, s |-> s]
NaN == [kind |-> "nan", t |-> 0, s |-> 0]
EmptyString == [kind |-> "empty", t |-> 0, s |-> 0]

\* bool(cell), as `if incident.get('Resolved_Date'):` takes it: a non-empty
\* string is true, '' is false, and float('nan') is true
Truthy(cell) == cell.kind # "empty"

\* pd.to_datetime(cell): NaT for NaN and for ''
to_datetime(cell) ==
    IF cell.kind = "ts" THEN [nat |-> FALSE, t |-> cell.t, s |-> cell.s]
    ELSE [nat |-> TRUE, t |-> 0, s |-> 0]

\* (a - b).total_seconds(), NaT aside
TotalSeconds(a, b) == (a.t - b.t) * SecondsPerQuarter + (a.s - b.s)

\* (a - b).total_seconds() / 3600, as q quarter hours and s seconds more: NaN
\* when either is NaT
HoursBetween(a, b) ==
    IF a.nat \/ b.nat THEN [nan |-> TRUE, q |-> 0, s |-> 0]
    ELSE [nan |-> FALSE,
          q |-> TotalSeconds(a, b) \div SecondsPerQuarter,
          s |-> TotalSeconds(a, b) % SecondsPerQuarter]

\* hours > limit, the limit in quarter hours: every comparison with NaN is False
GreaterThanMutantGe(hours, limit) == ~hours.nan /\ hours.q >= limit

GreaterThan(hours, limit) ==
    ~hours.nan /\ (hours.q > limit \/ (hours.q = limit /\ hours.s > 0))

\* round(n / d) to the nearest integer, ties to even, as Python's round
RoundHalfEven(n, d) ==
    LET q == n \div d
        r == n % d
    IN  IF 2 * r < d THEN q
        ELSE IF 2 * r > d THEN q + 1
        ELSE IF q % 2 = 0 THEN q ELSE q + 1

\* round(hours, 2), in hundredths of an hour
RoundedHours(hours) ==
    RoundHalfEven(100 * (hours.q * SecondsPerQuarter + hours.s), 4 * SecondsPerQuarter)

\* the percentage taken from the rounded hours the deviation reports as 'actual'
DeviationPctMutantOfRounded(hours, expected) ==
    RoundHalfEven(1000 * (RoundedHours(hours) - 25 * expected), 25 * expected)

\* round((hours - expected) / expected * 100, 1), in tenths of a percent; the
\* hours are the unrounded quotient, expected is in quarter hours
DeviationPct(hours, expected) ==
    RoundHalfEven(1000 * ((hours.q - expected) * SecondsPerQuarter + hours.s),
                  expected * SecondsPerQuarter)

\* dict.get(key, default)
DictGet(dict, key, default) == IF key \in DOMAIN dict THEN dict[key] ELSE default

EmptyDict == [k \in {} |-> 0]

-----------------------------------------------------------------------------
(* run_itsm_analysis.py: DocumentRetrievalAgent *)

\* the SLA table of _parse_incident_rules, in quarter hours
SlaTable ==
    [Critical |-> [response |-> 1,  resolution |-> 16],
     High     |-> [response |-> 4,  resolution |-> 48],
     Medium   |-> [response |-> 16, resolution |-> 192],
     Low      |-> [response |-> 32, resolution |-> 384]]

\* the step lists the regular expressions of _parse_incident_rules may find
\* in a rules document, keyed by category.lower()
StepCatalogs ==
    { [network |-> << <<"A">>, <<"a", "a">>, <<"a">> >>,
       application |-> << <<"a">>, <<"A">> >>],
      [network |-> << <<"a">>, <<"A", "a">>, <<"A">>, <<"a", "a">> >>,
       application |-> << <<"A">> >>] }

\* the rules after _parse_incident_rules, for a document with these step lists
ParseIncidentRules(steps) ==
    [sla |-> SlaTable,
     required_steps |-> steps,
     max_reassignments |-> 2,
     kb_required_priorities |-> {"Critical", "High"}]

\* the symbols of a role name; 'ECAB' holds 'CAB'
RoleName(role) == IF role = "ECAB" THEN <<"E", "CAB">> ELSE <<role>>

\* the rules after _parse_change_rules
ParseChangeRules ==
    [required_approvals |->
        [Standard  |-> << RoleName("Pre-Approved") >>,
         Normal    |-> << RoleName("Manager"), RoleName("CAB") >>,
         Emergency |-> << RoleName("IT Director"), RoleName("ECAB") >>],
     testing_required_risks |-> {"Critical", "High"}]

\* category.lower() of the categories a ticket may carry
CategoryLower(category) ==
    CASE category = "Network" -> "network"
      [] category = "APPLICATION" -> "application"
      [] category = "Facilities" -> "facilities"
      [] category = "" -> ""

get_incident_sla(priority) == DictGet(incident_rules.sla, priority, EmptyDict)

get_required_steps(category) ==
    DictGet(incident_rules.required_steps, CategoryLower(category), <<>>)

get_change_approvals(change_type) ==
    DictGet(change_rules.required_approvals, change_type, <<>>)

is_testing_required(risk_level) == risk_level \in change_rules.testing_required_risks

-----------------------------------------------------------------------------
(* run_itsm_analysis.py: DeviationAnalysisAgent *)

Raised(error) == [raised |-> error]

\* the SLA part with the resolution check made before the response check
SlaDeviationsMutantResolutionFirst(row, sla, response_hours, resolution_hours) ==
    (IF GreaterThan(resolution_hours, sla.resolution)
     THEN << [type |-> "SLA_RESOLUTION_BREACH",
              severity |-> IF row.Priority \in {"Critical", "High"}
                           THEN "CRITICAL" ELSE "MEDIUM",
              expected |-> sla.resolution, actual |-> RoundedHours(resolution_hours),
              deviation_pct |-> DeviationPct(resolution_hours, sla.resolution)] >>
     ELSE <<>>)
    \o
    (IF GreaterThan(response_hours, sla.response)
     THEN << [type |-> "SLA_RESPONSE_BREACH", severity |-> "HIGH",
              expected |-> sla.response, actual |-> RoundedHours(response_hours),
              deviation_pct |-> DeviationPct(response_hours, sla.response)] >>
     ELSE <<>>)

\* the SLA part of analyze_incident (lines 150-166)
SlaDeviations(row, sla, response_hours, resolution_hours) ==
    (IF GreaterThan(response_hours, sla.response)
     THEN << [type |-> "SLA_RESPONSE_BREACH", severity |-> "HIGH",
              expected |-> sla.response, actual |-> RoundedHours(response_hours),
              deviation_pct |-> DeviationPct(response_hours, sla.response)] >>
     ELSE <<>>)
    \o
    (IF GreaterThan(resolution_hours, sla.resolution)
     THEN << [type |-> "SLA_RESOLUTION_BREACH",
              severity |-> IF row.Priority \in {"Critical", "High"}
                           THEN "CRITICAL" ELSE "MEDIUM",
              expected |-> sla.resolution, actual |-> RoundedHours(resolution_hours),
              deviation_pct |-> DeviationPct(resolution_hours, sla.resolution)] >>
     ELSE <<>>)

\* round(len(completed_steps) / len(required_steps) * 100, 1), in tenths
CompletionRate(completed_steps, required_steps) ==
    RoundHalfEven(1000 * Len(completed_steps), Len(required_steps))

\* the process-step part of analyze_incident (lines 168-179)
StepDeviations(row) ==
    LET required_steps == get_required_steps(row.Category)
        completed_steps == Split(row.Steps_Completed)
        missing_steps == NotIn(required_steps, completed_steps)
    IN  IF missing_steps # <<>>
        THEN << [type |-> "MISSING_PROCESS_STEPS", severity |-> "HIGH",
                 missing_steps |-> missing_steps,
                 completion_rate |-> CompletionRate(completed_steps, required_steps)] >>
        ELSE <<>>

\* incident['Reassignment_Count'] > 2
TooManyReassignmentsMutantGe(reassignments) == reassignments >= 2

TooManyReassignments(reassignments) == reassignments > 2

\* the reassignment part of analyze_incident (lines 181-187)
ReassignmentDeviations(row) ==
    IF TooManyReassignments(row.Reassignment_Count)
    THEN << [type |-> "EXCESSIVE_REASSIGNMENTS", severity |-> "MEDIUM",
             count |-> row.Reassignment_Count] >>
    ELSE <<>>

\* the knowledge-article part of analyze_incident (lines 189-194)
KnowledgeDeviations(row) ==
    IF row.Priority \in {"Critical", "High"} /\ row.Knowledge_Article_Created = "No"
    THEN << [type |-> "MISSING_KNOWLEDGE_ARTICLE", severity |-> "MEDIUM"] >>
    ELSE <<>>

\* the satisfaction part of analyze_incident (lines 196-201)
SatisfactionDeviations(row) ==
    IF row.Customer_Satisfaction = "Dissatisfied"
    THEN << [type |-> "POOR_CUSTOMER_SATISFACTION", severity |-> "HIGH"] >>
    ELSE <<>>

\* the dict analyze_incident and analyze_change return (lines 203-213, 269-279)
ResultOfMutantStatus(id, type, deviations) ==
    [raised |-> "none",
     id |-> id,
     type |-> type,
     deviations |-> deviations,
     deviation_count |-> Len(deviations),
     compliance_status |-> IF Len(deviations) > 1 THEN "NON-COMPLIANT" ELSE "COMPLIANT"]

ResultOf(id, type, deviations) ==
    [raised |-> "none",
     id |-> id,
     type |-> type,
     deviations |-> deviations,
     deviation_count |-> Len(deviations),
     compliance_status |-> IF Len(deviations) > 0 THEN "NON-COMPLIANT" ELSE "COMPLIANT"]

\* DeviationAnalysisAgent.analyze_incident; sla['response'] of the empty dict an
\* unknown priority gets raises KeyError
analyze_incidentMutantElif(row) ==
    LET sla == get_incident_sla(row.Priority)
        created == to_datetime(row.Created_Date)
        response == to_datetime(row.Response_Date)
        resolved == to_datetime(row.Resolved_Date)
        response_hours == HoursBetween(response, created)
        resolution_hours == HoursBetween(resolved, created)
    IN  IF "response" \notin DOMAIN sla
        THEN Raised("KeyError")
        ELSE IF row.Steps_Completed = <<>>
        THEN Raised("AttributeError")
        ELSE ResultOf(row.Incident_ID, "Incident",
                 SlaDeviations(row, sla, response_hours, resolution_hours)
                 \o StepDeviations(row)
                 \o FirstNonEmpty(<< ReassignmentDeviations(row),
                                     KnowledgeDeviations(row),
                                     SatisfactionDeviations(row) >>))

analyze_incident(row) ==
    LET sla == get_incident_sla(row.Priority)
        created == to_datetime(row.Created_Date)
        response == to_datetime(row.Response_Date)
        resolved == to_datetime(row.Resolved_Date)
        response_hours == HoursBetween(response, created)
        resolution_hours == HoursBetween(resolved, created)
    IN  IF "response" \notin DOMAIN sla
        THEN Raised("KeyError")
        ELSE IF row.Steps_Completed = <<>>
        THEN Raised("AttributeError")
        ELSE ResultOf(row.Incident_ID, "Incident",
                 SlaDeviations(row, sla, response_hours, resolution_hours)
                 \o StepDeviations(row)
                 \o ReassignmentDeviations(row)
                 \o KnowledgeDeviations(row)
                 \o SatisfactionDeviations(row))

\* [a for a in required_approvals if a not in obtained_approvals], of the
\* Obtained_Approvals text
MissingApprovalsMutantSwapped(required_approvals, text) ==
    NotIn(Split(text), required_approvals)

MissingApprovals(required_approvals, text) == NotIn(required_approvals, Split(text))

\* the approval part of analyze_change (lines 221-231)
ApprovalDeviations(row) ==
    LET required_approvals == get_change_approvals(row.Type)
        missing_approvals == MissingApprovals(required_approvals, row.Obtained_Approvals)
    IN  IF missing_approvals # <<>>
        THEN << [type |-> "MISSING_APPROVALS", severity |-> "CRITICAL",
                 missing |-> missing_approvals] >>
        ELSE <<>>

\* the remaining parts of analyze_change (lines 233-267)
FlagDeviations(row) ==
    (IF is_testing_required(row.Risk_Level)
        /\ row.Testing_Required = "Yes" /\ row.Testing_Completed = "No"
     THEN << [type |-> "MISSING_TESTING_EVIDENCE", severity |-> "HIGH"] >> ELSE <<>>)
    \o
    (IF row.Rollback_Plan_Documented = "No"
     THEN << [type |-> "MISSING_ROLLBACK_PLAN", severity |-> "HIGH"] >> ELSE <<>>)
    \o
    (IF row.Implemented_During_Blackout = "Yes"
     THEN << [type |-> "BLACKOUT_WINDOW_VIOLATION", severity |-> "CRITICAL"] >> ELSE <<>>)
    \o
    (IF row.Post_Implementation_Review_Completed = "No"
     THEN << [type |-> "MISSING_PIR", severity |-> "MEDIUM"] >> ELSE <<>>)
    \o
    (IF row.Knowledge_Base_Updated = "No"
     THEN << [type |-> "KB_NOT_UPDATED", severity |-> "MEDIUM"] >> ELSE <<>>)

\* DeviationAnalysisAgent.analyze_change
analyze_change(row) ==
    IF row.Obtained_Approvals = <<>>
    THEN Raised("AttributeError")
    ELSE ResultOf(row.Change_ID, "Change", ApprovalDeviations(row) \o FlagDeviations(row))

-----------------------------------------------------------------------------
(* run_itsm_main_agent.py: GitHubDocumentAgent and IntelligentAnalysisAgent *)

\* a step name of the hardcoded table is one symbol
GitHubSteps(names) == [i \in DOMAIN names |-> <<names[i]>>]

\* GitHubDocumentAgent after _parse_incident_rules and _parse_change_rules
GitHubRules ==
    [incident_rules |->
        [sla |-> SlaTable,
         required_steps |->
            [network |-> GitHubSteps(<<"Initial Assessment", "Network Diagnostics",
                "Root Cause Analysis", "Solution Implementation", "Testing",
                "Documentation", "Closure">>),
             application |-> GitHubSteps(<<"Initial Assessment", "Code Review",
                "Bug Identification", "Fix Implementation", "Testing", "Deployment",
                "User Validation", "Closure">>),
             hardware |-> GitHubSteps(<<"Initial Assessment", "Hardware Diagnostics",
                "Component Testing", "Replacement/Repair", "System Testing",
                "Documentation", "Closure">>),
             security |-> GitHubSteps(<<"Initial Assessment", "Security Scan",
                "Threat Analysis", "Patch Implementation", "Security Testing",
                "Compliance Verification", "Documentation", "Closure">>),
             database |-> GitHubSteps(<<"Initial Assessment", "Query Analysis",
                "Performance Check", "Backup Verification", "Fix Implementation",
                "Data Validation", "Documentation", "Closure">>)],
         max_reassignments |-> 2,
         kb_required_priorities |-> {"Critical", "High"}],
     change_rules |-> ParseChangeRules]

GitHub_get_incident_sla(priority) ==
    DictGet(github_rules.incident_rules.sla, priority, EmptyDict)

GitHub_get_required_steps(category) ==
    DictGet(github_rules.incident_rules.required_steps, CategoryLower(category), <<>>)

\* the SLA part of IntelligentAnalysisAgent.analyze_incident (lines 147-162)
IntelligentSlaDeviations(row, sla, resolution_hours) ==
    IF GreaterThan(resolution_hours, sla.resolution)
    THEN << [type |-> "SLA_RESOLUTION_BREACH",
             severity |-> IF row.Priority \in {"Critical", "High"}
                          THEN "CRITICAL" ELSE "MEDIUM",
             expected |-> sla.resolution, actual |-> RoundedHours(resolution_hours),
             deviation_pct |-> DeviationPct(resolution_hours, sla.resolution)] >>
    ELSE <<>>

\* the process-step part of IntelligentAnalysisAgent.analyze_incident (lines 164-175)
IntelligentStepDeviations(row) ==
    LET required_steps == GitHub_get_required_steps(row.Category)
        completed_steps == Split(row.Steps_Completed)
        missing_steps == NotIn(required_steps, completed_steps)
    IN  IF missing_steps # <<>>
        THEN << [type |-> "MISSING_PROCESS_STEPS", severity |-> "HIGH",
                 missing_steps |-> missing_steps] >>
        ELSE <<>>

\* the dict IntelligentAnalysisAgent.analyze_incident returns (lines 197-211)
IntelligentResultOf(row, deviations) ==
    [raised |-> "none",
     id |-> row.Incident_ID,
     type |-> "Incident",
     manager_email |-> row.Manager_Email,
     deviations |-> deviations,
     deviation_count |-> Len(deviations),
     compliance_status |-> IF deviations # <<>> THEN "NON-COMPLIANT" ELSE "COMPLIANT"]

\* IntelligentAnalysisAgent.analyze_incident; sla['resolution'] of the empty dict
\* an unknown priority gets raises KeyError
Intelligent_analyze_incident(row) ==
    LET sla == GitHub_get_incident_sla(row.Priority)
        created == to_datetime(row.Created_Date)
        resolved == to_datetime(row.Resolved_Date)
        resolution_hours == HoursBetween(resolved, created)
    IN  IF "resolution" \notin DOMAIN sla
        THEN Raised("KeyError")
        ELSE IF row.Steps_Completed = <<>>
        THEN Raised("AttributeError")
        ELSE IntelligentResultOf(row,
                 IntelligentSlaDeviations(row, sla, resolution_hours)
                 \o IntelligentStepDeviations(row)
                 \o ReassignmentDeviations(row)
                 \o KnowledgeDeviations(row))

GitHub_get_change_approvals(change_type) ==
    DictGet(github_rules.change_rules.required_approvals, change_type, <<>>)

GitHub_is_testing_required(risk_level) ==
    risk_level \in github_rules.change_rules.testing_required_risks

\* the approval part of IntelligentAnalysisAgent.analyze_change (lines 216-227);
\* detail holds the three lists its text joins
IntelligentApprovalDeviations(row) ==
    LET required_approvals == GitHub_get_change_approvals(row.Type)
        obtained_approvals == Split(row.Obtained_Approvals)
        missing_approvals == MissingApprovals(required_approvals, row.Obtained_Approvals)
    IN  IF missing_approvals # <<>>
        THEN << [type |-> "MISSING_APPROVALS", severity |-> "CRITICAL",
                 missing |-> missing_approvals,
                 detail |-> [missing |-> missing_approvals,
                             required |-> required_approvals,
                             obtained |-> obtained_approvals]] >>
        ELSE <<>>

\* the remaining parts of IntelligentAnalysisAgent.analyze_change (lines 229-268)
IntelligentFlagDeviations(row) ==
    (IF GitHub_is_testing_required(row.Risk_Level)
        /\ row.Testing_Required = "Yes" /\ row.Testing_Completed = "No"
     THEN << [type |-> "MISSING_TESTING_EVIDENCE", severity |-> "HIGH"] >> ELSE <<>>)
    \o
    (IF row.Rollback_Plan_Documented = "No"
     THEN << [type |-> "MISSING_ROLLBACK_PLAN", severity |-> "HIGH"] >> ELSE <<>>)
    \o
    (IF row.Implemented_During_Blackout = "Yes"
     THEN << [type |-> "BLACKOUT_WINDOW_VIOLATION", severity |-> "CRITICAL"] >> ELSE <<>>)
    \o
    (IF row.Post_Implementation_Review_Completed = "No"
     THEN << [type |-> "MISSING_PIR", severity |-> "MEDIUM"] >> ELSE <<>>)
    \o
    (IF row.Knowledge_Base_Updated = "No"
     THEN << [type |-> "KB_NOT_UPDATED", severity |-> "MEDIUM"] >> ELSE <<>>)

\* the dict IntelligentAnalysisAgent.analyze_change returns (lines 270-282)
IntelligentChangeResultOf(row, deviations) ==
    [raised |-> "none",
     id |-> row.Change_ID,
     type |-> "Change",
     manager_email |-> row.Manager_Email,
     deviations |-> deviations,
     deviation_count |-> Len(deviations),
     compliance_status |-> IF deviations # <<>> THEN "NON-COMPLIANT" ELSE "COMPLIANT"]

\* IntelligentAnalysisAgent.analyze_change
Intelligent_analyze_change(row) ==
    IF row.Obtained_Approvals = <<>>
    THEN Raised("AttributeError")
    ELSE IntelligentChangeResultOf(row,
             IntelligentApprovalDeviations(row) \o IntelligentFlagDeviations(row))

\* pd.read_csv of a date field: an empty field becomes NaN
read_csv_cell(cell) == IF cell.kind = "empty" THEN NaN ELSE cell

\* pd.read_csv('incidents_data.csv')
read_csv(file) ==
    [i \in DOMAIN file |-> [file[i] EXCEPT !.Resolved_Date = read_csv_cell(@)]]

\* the 2 of `if hours_remaining < 2`, in quarter hours
RiskWindow == 8

\* round(hours_remaining, 1) of a count of quarter hours, in tenths of an hour
RoundHours(q) == RoundHalfEven(10 * q, 4)

\* sla_deadline.strftime('%Y-%m-%d %H:%M:%S'): the text of a time, to the second
strftime(t) == [format |-> "%Y-%m-%d %H:%M:%S", t |-> t]

\* what one pass of the loop of predict_sla_breaches appends (lines 303-327)
PredictRow(row, now) ==
    LET created == to_datetime(row.Created_Date)
        sla == GitHub_get_incident_sla(row.Priority)
        sla_deadline == created.t + sla.resolution
    IN  IF Truthy(row.Resolved_Date)
        THEN LET resolved == to_datetime(row.Resolved_Date)
             IN  IF ~resolved.nat
                    /\ TotalSeconds(resolved, [t |-> sla_deadline, s |-> created.s]) > 0
                 THEN << [id |-> row.Incident_ID,
                          priority |-> row.Priority,
                          manager_email |-> row.Manager_Email,
                          status |-> "BREACHED",
                          deadline |-> strftime(sla_deadline)] >>
                 ELSE <<>>
        ELSE LET hours_remaining == sla_deadline - now
             IN  IF hours_remaining < RiskWindow
                 THEN << [id |-> row.Incident_ID,
                          priority |-> row.Priority,
                          manager_email |-> row.Manager_Email,
                          status |-> "AT_RISK",
                          hours_remaining |-> RoundHours(hours_remaining),
                          deadline |-> strftime(sla_deadline)] >>
                 ELSE <<>>

RECURSIVE PredictFrom(_, _, _)
PredictFrom(df, i, now) ==
    IF i > Len(df) THEN <<>>
    ELSE PredictRow(df[i], now) \o PredictFrom(df, i + 1, now)

\* IntelligentAnalysisAgent.predict_sla_breaches; sla['resolution'] of the
\* empty dict an unknown priority gets raises KeyError
predict_sla_breaches(df, now) ==
    IF \E i \in DOMAIN df : "resolution" \notin DOMAIN GitHub_get_incident_sla(df[i].Priority)
    THEN Raised("KeyError")
    ELSE [raised |-> "none", at_risk |-> PredictFrom(df, 1, now)]

\* the float nan that read_csv puts for an empty Manager_Email cell
NanEmail == "nan"

\* the manager_email values of a list of results
ManagersOf(entries) == {entries[i].manager_email : i \in DOMAIN entries}

\* manager_data of send_manager_reports (lines 339-350): every result is
\* appended under its manager_email, to 'incidents' or to 'changes', and every
\* at-risk entry to 'at_risk'; a nan from one column is one key of the dict
ManagerData(entries, at_risk_incidents) ==
    [manager_email \in ManagersOf(entries) \cup ManagersOf(at_risk_incidents) |->
        [incidents |-> SelectSeq(entries, LAMBDA r :
                          r.manager_email = manager_email /\ r.type = "Incident"),
         changes |-> SelectSeq(entries, LAMBDA r :
                          r.manager_email = manager_email /\ r.type # "Incident"),
         at_risk |-> SelectSeq(at_risk_incidents, LAMBDA r :
                          r.manager_email = manager_email)]]

\* _send_email goes on to send unless the manager has nothing to be told
HasDeviations(data) ==
    \/ \E i \in DOMAIN data.incidents : data.incidents[i].compliance_status = "NON-COMPLIANT"
    \/ \E i \in DOMAIN data.changes : data.changes[i].compliance_status = "NON-COMPLIANT"
    \/ data.at_risk # <<>>

\* a list without the later occurrences of each of its elements
RECURSIVE FirstOccurrences(_)
FirstOccurrences(list) ==
    IF list = <<>> THEN <<>>
    ELSE LET front == FirstOccurrences(SubSeq(list, 1, Len(list) - 1))
             last == list[Len(list)]
         IN  IF \E i \in DOMAIN front : front[i] = last THEN front ELSE Append(front, last)

\* the keys of manager_data in the order of manager_data.items(): the order
\* in which the loops of lines 341-350 first met them
ManagerItems(entries, at_risk_incidents) ==
    FirstOccurrences([i \in 1..(Len(entries) + Len(at_risk_incidents)) |->
                         (entries \o at_risk_incidents)[i].manager_email])

\* how an SMTP exchange may end: the message is sent, or server.login or
\* server.send_message raises
SendOutcomes == {"sent", "login raised", "send_message raised"}

NonCompliant(entries) ==
    SelectSeq(entries, LAMBDA r : r.compliance_status = "NON-COMPLIANT")

\* _send_email without the return of lines 360-362
send_emailMutantNoSkip(manager_email, data, outcome) ==
    << [to |-> manager_email,
        incidents |-> NonCompliant(data.incidents),
        changes |-> NonCompliant(data.changes),
        at_risk |-> data.at_risk,
        outcome |-> outcome] >>

\* EmailNotificationAgent._send_email (lines 355-382): the exchanges it
\* begins, none for a manager with nothing to be told; an exception of the
\* exchange is caught and printed
send_email(manager_email, data, outcome) ==
    IF ~HasDeviations(data) THEN <<>>
    ELSE << [to |-> manager_email,
             incidents |-> NonCompliant(data.incidents),
             changes |-> NonCompliant(data.changes),
             at_risk |-> data.at_risk,
             outcome |-> outcome] >>

\* the loop of lines 352-353 letting the exception of an exchange through
RECURSIVE SendFromMutantUncaught(_, _, _, _)
SendFromMutantUncaught(items, data, outcomes, i) ==
    IF i > Len(items) THEN <<>>
    ELSE LET begun == send_email(items[i], data[items[i]], outcomes[i])
         IN  IF begun # <<>> /\ outcomes[i] # "sent" THEN begun
             ELSE begun \o SendFromMutantUncaught(items, data, outcomes, i + 1)

\* for manager_email, data in manager_data.items(): self._send_email(...)
RECURSIVE SendFrom(_, _, _, _)
SendFrom(items, data, outcomes, i) ==
    IF i > Len(items) THEN <<>>
    ELSE send_email(items[i], data[items[i]], outcomes[i])
         \o SendFrom(items, data, outcomes, i + 1)

\* EmailNotificationAgent.send_manager_reports (lines 338-353): the exchanges
\* begun, when the i-th manager's exchange would end as outcomes[i]
send_manager_reports(entries, at_risk_incidents, outcomes) ==
    SendFrom(ManagerItems(entries, at_risk_incidents),
             ManagerData(entries, at_risk_incidents), outcomes, 1)

\* the addresses whose message was sent
Delivered(exchanges) ==
    {exchanges[i].to : i \in {k \in DOMAIN exchanges : exchanges[k].outcome = "sent"}}

-----------------------------------------------------------------------------
(* complete-itsm-agent-production.py: GitHubRulesAgent and                  *)
(* IntelligentAnalysisAgent.analyze_incident_compliance                     *)

\* GitHubRulesAgent.incident_rules once incident_management_rules.txt is fetched
JiraIncidentRules ==
    [sla |-> SlaTable, kb_required |-> {"Critical", "High"}, max_reassignments |-> 2]

\* the text 'None' generate-noncompliant-incidents.py writes for no missing step
NoneText == <<"None">>

\* the issues of one row (lines 342-374); a detail is the values its text shows
JiraIssues(inc) ==
    (IF inc.SLA_Breached = "Yes"
     THEN << [type |-> "SLA Breach", severity |-> "high",
              detail |-> [target |-> inc.SLA_Target_Hours,
                          actual |-> inc.Resolution_Hours,
                          exceeded |-> inc.Resolution_Hours - inc.SLA_Target_Hours]] >>
     ELSE <<>>)
    \o
    (IF inc.Missing_Steps # NoneText
     THEN << [type |-> "Missing Process Steps", severity |-> "medium",
              detail |-> inc.Missing_Steps] >>
     ELSE <<>>)
    \o
    (IF inc.Priority \in jira_rules.kb_required /\ inc.Knowledge_Article_Created = "No"
     THEN << [type |-> "Missing KB Article", severity |-> "medium",
              detail |-> inc.Priority] >>
     ELSE <<>>)
    \o
    (IF inc.Reassignment_Count > jira_rules.max_reassignments
     THEN << [type |-> "Excessive Reassignments", severity |-> "low",
              detail |-> [count |-> inc.Reassignment_Count,
                          max |-> jira_rules.max_reassignments]] >>
     ELSE <<>>)

\* the deviations of the rows from the i-th on (lines 341-384)
RECURSIVE JiraDeviationsFrom(_, _)
JiraDeviationsFrom(df, i) ==
    IF i > Len(df) THEN <<>>
    ELSE (IF JiraIssues(df[i]) # <<>>
          THEN << [id |-> df[i].Incident_ID,
                   category |-> df[i].Category,
                   priority |-> df[i].Priority,
                   manager_email |-> df[i].Manager_Email,
                   technician |-> df[i].Technician_Name,
                   issues |-> JiraIssues(df[i])] >>
          ELSE <<>>)
         \o JiraDeviationsFrom(df, i + 1)

\* IntelligentAnalysisAgent.analyze_incident_compliance; with the rules left
\* empty by a failed fetch the first row raises KeyError
analyze_incident_compliance ==
    IF csv_incidents_df # <<>> /\ "kb_required" \notin DOMAIN jira_rules
    THEN Raised("KeyError")
    ELSE [raised |-> "none", deviations |-> JiraDeviationsFrom(csv_incidents_df, 1)]

\* GitHubRulesAgent.change_rules once change_management_rules.txt is fetched
JiraChangeRules ==
    [required_approvals |-> [Standard |-> <<"Pre-Approved">>,
                             Normal |-> <<"Manager", "CAB">>,
                             Emergency |-> <<"IT Director", "ECAB">>],
     testing_required_risks |-> {"Critical", "High"},
     rollback_required |-> TRUE,
     pir_required |-> TRUE]

\* how the try block of fetch_rules_from_github may end: both documents
\* fetched, or the second or the first requests.get raising
FetchOutcomes == {"fetched", "changes_failed", "incidents_failed"}

\* the two rule sets after fetch_rules_from_github: __init__ made both {},
\* and the except branch assigns nothing
RulesAfterFetch(outcome) ==
    [incident_rules |-> IF outcome = "incidents_failed" THEN EmptyDict ELSE JiraIncidentRules,
     change_rules |-> IF outcome = "fetched" THEN JiraChangeRules ELSE EmptyDict]

\* priority_map.get(jira_priority, 'Medium') of fetch_live_jira_incidents
JiraPriorityMap(jira_priority) ==
    CASE jira_priority = "Highest" -> "Critical"
      [] jira_priority = "High" -> "High"
      [] jira_priority = "Medium" -> "Medium"
      [] jira_priority = "Low" -> "Low"
      [] jira_priority = "Lowest" -> "Low"
      [] OTHER -> "Medium"

\* the entries fetch_live_jira_incidents appends for the issues from the i-th
\* on (lines 157-244); an issue without a priority object counts as 'Medium',
\* and an issue whose SLA lookup raises is skipped by the inner except
RECURSIVE LiveIncidentsFrom(_, _)
LiveIncidentsFrom(issues, i) ==
    IF i > Len(issues) THEN <<>>
    ELSE LET jira_priority == IF issues[i].priority = "" THEN "Medium"
                              ELSE issues[i].priority
             priority == JiraPriorityMap(jira_priority)
         IN  (IF "sla" \in DOMAIN jira_rules
              THEN << [id |-> issues[i].key,
                       priority |-> priority,
                       sla_target |-> jira_rules.sla[priority].resolution] >>
              ELSE <<>>)
             \o LiveIncidentsFrom(issues, i + 1)

\* the issues of one change row (lines 396-428)
JiraChangeIssues(chg) ==
    (IF chg.Missing_Approvals # NoneText
     THEN << [type |-> "Missing Approvals", severity |-> "high",
              detail |-> [missing |-> chg.Missing_Approvals,
                          required |-> chg.Required_Approvals]] >>
     ELSE <<>>)
    \o
    (IF chg.Testing_Completed = "No"
     THEN << [type |-> "Testing Not Completed", severity |-> "high", detail |-> <<>>] >>
     ELSE <<>>)
    \o
    (IF chg.Rollback_Plan_Documented = "No"
     THEN << [type |-> "No Rollback Plan", severity |-> "medium", detail |-> <<>>] >>
     ELSE <<>>)
    \o
    (IF chg.Post_Implementation_Review_Completed = "No"
     THEN << [type |-> "No Post-Implementation Review", severity |-> "medium",
              detail |-> <<>>] >>
     ELSE <<>>)

\* the deviations of the change rows from the i-th on (lines 395-438)
RECURSIVE JiraChangeDeviationsFrom(_, _)
JiraChangeDeviationsFrom(df, i) ==
    IF i > Len(df) THEN <<>>
    ELSE (IF JiraChangeIssues(df[i]) # <<>>
          THEN << [id |-> df[i].Change_ID,
                   category |-> df[i].Category,
                   risk |-> df[i].Risk_Level,
                   manager_email |-> df[i].Manager_Email,
                   technician |-> df[i].Technician_Name,
                   issues |-> JiraChangeIssues(df[i])] >>
          ELSE <<>>)
         \o JiraChangeDeviationsFrom(df, i + 1)

\* IntelligentAnalysisAgent.analyze_change_compliance; it reads no rule
analyze_change_compliance ==
    [raised |-> "none", deviations |-> JiraChangeDeviationsFrom(csv_changes_df, 1)]

\* the two addresses send_professional_reports always writes to
DefaultManagers ==
    {"davala.rammohan@cognizant.com", "Siddhartha.chakraberty@cognizant.com"}

\* Python's == on two manager_email values: nan equals nothing, itself included
Equals(a, b) == a # NanEmail /\ a = b

\* mgr_incidents and mgr_changes of send_professional_reports for each
\* address of its managers set (lines 449-463)
send_professional_reports(devs_of_incidents, devs_of_changes) ==
    [manager_email \in DefaultManagers \cup ManagersOf(devs_of_incidents)
                                       \cup ManagersOf(devs_of_changes) |->
        [mgr_incidents |-> SelectSeq(devs_of_incidents, LAMBDA d :
                              Equals(d.manager_email, manager_email)),
         mgr_changes |-> SelectSeq(devs_of_changes, LAMBDA d :
                              Equals(d.manager_email, manager_email))]]

\* `for manager_email in managers` visits each address of the set once, in an
\* order the set does not promise; the addresses are taken in this one
ManagersInOrder(managers) ==
    SelectSeq(<<"davala.rammohan@cognizant.com", "Siddhartha.chakraberty@cognizant.com",
                "manager1@company.com", NanEmail>>,
              LAMBDA manager_email : manager_email \in managers)

\* the try of send_professional_reports (lines 469-484) for the addresses from
\* the i-th on: an exchange for each, whatever the lists hold; an exception of
\* the exchange is caught and printed
RECURSIVE ProfessionalSendFrom(_, _, _, _)
ProfessionalSendFrom(items, built, outcomes, i) ==
    IF i > Len(items) THEN <<>>
    ELSE << [to |-> items[i],
             incidents |-> built[items[i]].mgr_incidents,
             changes |-> built[items[i]].mgr_changes,
             at_risk |-> <<>>,
             outcome |-> outcomes[i]] >>
         \o ProfessionalSendFrom(items, built, outcomes, i + 1)

\* the ways the exchanges with these addresses may end; nothing is sent to nan
OutcomesFor(items) ==
    {outcomes \in [DOMAIN items -> SendOutcomes] :
        \A i \in DOMAIN items : items[i] = NanEmail => outcomes[i] # "sent"}

-----------------------------------------------------------------------------
(* jira_connector.py and servicenow_connector.py: _transform_incidents *)

\* a record whose 'priority' key is absent, and one whose priority is null
NoPriorityKey == "<absent>"
NullPriority == "<null>"

\* JiraConnector._map_priority
Jira_map_priority(jira_priority) ==
    CASE jira_priority = "Highest" -> "Critical"
      [] jira_priority = "High" -> "High"
      [] jira_priority = "Medium" -> "Medium"
      [] jira_priority = "Low" -> "Low"
      [] jira_priority = "Lowest" -> "Low"
      [] OTHER -> "Medium"

\* ServiceNowConnector._map_priority, on str(snow_priority)
ServiceNow_map_priority(snow_priority) ==
    CASE snow_priority \in {"1 - Critical", "1"} -> "Critical"
      [] snow_priority \in {"2 - High", "2"} -> "High"
      [] snow_priority \in {"3 - Moderate", "3"} -> "Medium"
      [] snow_priority \in {"4 - Low", "4"} -> "Low"
      [] snow_priority \in {"5 - Planning", "5"} -> "Low"
      [] OTHER -> "Medium"

\* sla_targets of both connectors, in quarter hours
ConnectorSlaTargets == [Critical |-> 16, High |-> 48, Medium |-> 192, Low |-> 384]

\* the row both connectors append for a record of this priority (Jira lines
\* 178-230, ServiceNow lines 121-163): sla_targets.get(priority, 48) and a
\* resolution time of 0 for a record without a resolution date
TransformedRow(record, priority) ==
    LET resolution_hours == IF Truthy(record.resolved)
                            THEN record.resolved.t - record.created.t
                            ELSE 0
        sla_target == DictGet(ConnectorSlaTargets, priority, 192)
    IN  [Incident_ID |-> record.key,
         Priority |-> priority,
         Created_Date |-> record.created,
         Resolved_Date |-> IF Truthy(record.resolved) THEN record.resolved ELSE EmptyString,
         Resolution_Hours |-> resolution_hours,
         SLA_Target_Hours |-> sla_target,
         SLA_Breached |-> IF resolution_hours > sla_target THEN "Yes" ELSE "No"]

\* JiraConnector._transform_incidents: fields.get('priority', {}) is {} for an
\* absent key, whose name then counts as 'Medium', and None for a null
\* priority, whose .get raises
Jira_transform_incidents(issues) ==
    IF \E i \in DOMAIN issues : issues[i].priority = NullPriority
    THEN Raised("AttributeError")
    ELSE [raised |-> "none",
          frame |-> [i \in DOMAIN issues |->
                       TransformedRow(issues[i],
                           Jira_map_priority(IF issues[i].priority = NoPriorityKey
                                             THEN "Medium" ELSE issues[i].priority))]]

\* ServiceNowConnector._transform_incidents: inc.get('priority') is None for
\* an absent key, and str(None) is in no entry of the mapping
ServiceNow_transform_incidents(incidents) ==
    [raised |-> "none",
     frame |-> [i \in DOMAIN incidents |->
                  TransformedRow(incidents[i],
                      ServiceNow_map_priority(IF incidents[i].priority = NoPriorityKey
                                              THEN "None" ELSE incidents[i].priority))]]

-----------------------------------------------------------------------------
(* itsm_multiagent_rag.py: DocumentRetrievalAgent and DeviationAnalysisAgent *)

\* the required steps of the rules document read, by category key
RagStepCatalog ==
    [network |-> << <<"a">>, <<"A", "a">> >>,
     application |-> << <<"A">> >>,
     user_support |-> << <<"a", "a">>, <<"a">> >>]

\* rules_db after load_rules_from_document, for a document with these step
\* lists; the time standards are in hours
RagRulesDb(steps) ==
    [time_standards |-> [Critical |-> 4, High |-> 12, Medium |-> 48, Low |-> 96],
     required_steps |-> steps,
     deviation_threshold |-> 20]

\* category.lower().replace(' ', '_')
RagCategoryKey(category) ==
    CASE category = "Network" -> "network"
      [] category = "APPLICATION" -> "application"
      [] category = "User Support" -> "user_support"

\* DocumentRetrievalAgent.get_rules_for_category
get_rules_for_category(category) ==
    [time_standard |-> DictGet(rules_db.time_standards, category, 24),
     required_steps |-> DictGet(rules_db.required_steps, RagCategoryKey(category), <<>>),
     threshold |-> rules_db.deviation_threshold]

\* any(required_step.lower() in step.lower() for step in steps_taken)
StepTakenMutantExact(required_step, steps_taken) == InList(required_step, steps_taken)

StepTaken(required_step, steps_taken) ==
    \E i \in 1..Len(steps_taken) : IsInfix(Lower(required_step), Lower(steps_taken[i]))

\* the missing_steps of one row (lines 121-132)
RagMissingSteps(row) ==
    LET steps_taken == Split(row.steps_taken)
        required_steps == get_rules_for_category(row.category).required_steps
    IN  SelectSeq(required_steps, LAMBDA required_step : ~StepTaken(required_step, steps_taken))

\* DeviationAnalysisAgent.analyze_process_deviations over the rows from the
\* i-th on; missing_steps is ', '.join(missing_steps)
RECURSIVE ProcessDeviationsFrom(_, _)
ProcessDeviationsFrom(data, i) ==
    IF i > Len(data) THEN <<>>
    ELSE (IF RagMissingSteps(data[i]) # <<>>
          THEN << [incident_id |-> data[i].incident_id,
                   category |-> data[i].category,
                   technician |-> data[i].technician,
                   missing_steps |-> JoinWith(RagMissingSteps(data[i]), ","),
                   steps_taken |-> data[i].steps_taken,
                   deviation_type |-> "Missing Required Steps"] >>
          ELSE <<>>)
         \o ProcessDeviationsFrom(data, i + 1)

\* DeviationAnalysisAgent.analyze_process_deviations; steps_taken.split of
\* an empty cell raises AttributeError
analyze_process_deviations ==
    IF \E i \in DOMAIN incidents_data : incidents_data[i].steps_taken = <<>>
    THEN Raised("AttributeError")
    ELSE [raised |-> "none", process_deviations |-> ProcessDeviationsFrom(incidents_data, 1)]

\* deviation_percent > threshold (lines 99-100), for hours that are whole
\* numbers and a threshold in percent
TimeExceeded(actual_time, expected_time, threshold) ==
    100 * (actual_time - expected_time) > threshold * expected_time

\* DeviationAnalysisAgent.analyze_time_deviations over the rows from the i-th
\* on; deviation_percent is in hundredths of a percent
RECURSIVE TimeDeviationsFrom(_, _)
TimeDeviationsFrom(data, i) ==
    IF i > Len(data) THEN <<>>
    ELSE LET expected_time == get_rules_for_category(data[i].category).time_standard
             threshold == get_rules_for_category(data[i].category).threshold
             actual_time == data[i].resolution_time_hours
         IN  (IF TimeExceeded(actual_time, expected_time, threshold)
              THEN << [incident_id |-> data[i].incident_id,
                       category |-> data[i].category,
                       priority |-> data[i].priority,
                       technician |-> data[i].technician,
                       expected_hours |-> expected_time,
                       actual_hours |-> actual_time,
                       deviation_percent |->
                           RoundHalfEven(10000 * (actual_time - expected_time), expected_time),
                       deviation_type |-> "Time Exceeded"] >>
              ELSE <<>>)
             \o TimeDeviationsFrom(data, i + 1)

\* DeviationAnalysisAgent.analyze_time_deviations
analyze_time_deviations ==
    [raised |-> "none", time_deviations |-> TimeDeviationsFrom(incidents_data, 1)]

-----------------------------------------------------------------------------
(* itsm_agent_complete.py: ITSMProcessDeviationAgent *)

\* self.standard_processes after define_standard_processes, with short step
\* names and short lists in place of the six or seven steps of a category
StandardProcesses ==
    [Network |-> << <<"a">>, <<"A">> >>,
     Application |-> << <<"a">> >>]

\* set(steps)
StepSet(steps) == {steps[i] : i \in DOMAIN steps}

\* the sequence deviation left at 0 whatever the order
SequenceDeviationMutantNotCounted(actual_steps, standard_steps) == 0

\* sequence_deviation (lines 184-188): the positions at which two lists of one
\* length differ
SequenceDeviation(actual_steps, standard_steps) ==
    IF Len(actual_steps) = Len(standard_steps)
    THEN Cardinality({i \in DOMAIN actual_steps : actual_steps[i] # standard_steps[i]})
    ELSE 0

\* abs(x)
Abs(x) == IF x < 0 THEN 0 - x ELSE x

\* the entry analyze_process_compliance appends for one row (lines 176-206),
\* without the columns it copies through and the joined step names
ComplianceEntry(row) ==
    LET category == row.category
        actual_steps == Split(row.actual_process)
        standard_steps == DictGet(StandardProcesses, category, <<>>)
        step_count_deviation == Len(actual_steps) - Len(standard_steps)
        missing_steps == StepSet(standard_steps) \ StepSet(actual_steps)
        extra_steps == StepSet(actual_steps) \ StepSet(standard_steps)
        sequence_deviation == SequenceDeviation(actual_steps, standard_steps)
    IN  [incident_id |-> row.incident_id,
         category |-> category,
         step_count_deviation |-> step_count_deviation,
         missing_steps_count |-> Cardinality(missing_steps),
         extra_steps_count |-> Cardinality(extra_steps),
         sequence_deviation |-> sequence_deviation,
         total_deviation_score |-> Abs(step_count_deviation) + Cardinality(missing_steps)
                                       + Cardinality(extra_steps) + sequence_deviation]

\* ITSMProcessDeviationAgent.analyze_process_compliance; actual_process.split
\* of an empty cell raises AttributeError
analyze_process_compliance(rows) ==
    IF \E i \in DOMAIN rows : rows[i].actual_process = <<>>
    THEN Raised("AttributeError")
    ELSE [raised |-> "none", deviation_df |-> [i \in DOMAIN rows |-> ComplianceEntry(rows[i])]]

-----------------------------------------------------------------------------
(* The rows tried *)

Priorities == {"Critical", "High", "Medium", "Low", "Urgent"}

Categories == {"Network", "APPLICATION", "Facilities"}

StepSymbols == {"a", "A", Sep}

ApproverRoles == {"Pre-Approved", "Manager", "CAB", "IT Director", "ECAB"}

\* the texts ' | '.join(names) of at most MaxApprovals role names
ApprovalTexts ==
    {Join([i \in DOMAIN roles |-> RoleName(roles[i])]) : roles \in SeqUpTo(ApproverRoles, MaxApprovals)}

YesNo == {"Yes", "No"}

\* the resolution target of a priority, 16 for one the table does not know
ResolutionTarget(priority) == DictGet(SlaTable, priority, [response |-> 1, resolution |-> 16]).resolution

ResponseTarget(priority) == DictGet(SlaTable, priority, [response |-> 1, resolution |-> 16]).response

\* a Resolved_Date at the target, one quarter past it, or an empty cell; or
\* one second or ten seconds past the target, or half the target past it
ResolvedCell(priority, created, how) ==
    CASE how = "at" -> Timestamp(created + ResolutionTarget(priority))
      [] how = "late" -> Timestamp(created + ResolutionTarget(priority) + 1)
      [] how = "open" -> NaN
      [] how = "second" -> TimestampSec(created + ResolutionTarget(priority), 1)
      [] how = "seconds" -> TimestampSec(created + ResolutionTarget(priority), 10)
      [] how = "half" -> Timestamp(created + ResolutionTarget(priority)
                                     + ResolutionTarget(priority) \div 2)

\* incidents created at 8, answered and resolved at, or one quarter past,
\* their targets, or still open
IncidentRows ==
    { [Incident_ID |-> "INC100000",
       Priority |-> p,
       Category |-> c,
       Created_Date |-> Timestamp(8),
       Response_Date |-> Timestamp(8 + ResponseTarget(p) + dr),
       Resolved_Date |-> ResolvedCell(p, 8, how),
       Steps_Completed |-> st,
       Reassignment_Count |-> n,
       Knowledge_Article_Created |-> kb,
       Customer_Satisfaction |-> cs] :
      p \in Priorities, c \in Categories, dr \in {0, 1},
      how \in {"at", "late", "open"},
      st \in SeqUpTo(StepSymbols, MaxTextLen), n \in 1..MaxReassign,
      kb \in YesNo, cs \in {"Satisfied", "Dissatisfied"} }

\* incidents of the priorities of the table, all steps of the first catalog
\* completed, resolved seconds past the target or half the target past it
TimedIncidentRows ==
    { [Incident_ID |-> "INC100001",
       Priority |-> p,
       Category |-> "APPLICATION",
       Created_Date |-> Timestamp(8),
       Response_Date |-> Timestamp(8 + ResponseTarget(p)),
       Resolved_Date |-> ResolvedCell(p, 8, how),
       Steps_Completed |-> <<"a", Sep, "A">>,
       Reassignment_Count |-> 1,
       Knowledge_Article_Created |-> "Yes",
       Customer_Satisfaction |-> "Satisfied"] :
      p \in DOMAIN SlaTable, how \in {"second", "seconds", "half"} }

\* the Steps_Completed texts of generate_incidents_v2: the required steps of
\* Network incidents with at most MaxDropped of them left out, joined
DroppedSets == {d \in SUBSET (1..7) : Cardinality(d) <= MaxDropped}

GitHubStepTexts ==
    {Join(SelectSeq(
        [i \in 1..7 |-> IF i \in d THEN <<>> ELSE GitHubRules.incident_rules.required_steps.network[i]],
        LAMBDA name : name # <<>>)) : d \in DroppedSets}

\* rows of incidents_data.csv as generate_incidents_v2 writes them
GitHubIncidentRows ==
    { [Incident_ID |-> "INC100000",
       Priority |-> p,
       Category |-> c,
       Manager_Email |-> "manager1@company.com",
       Created_Date |-> Timestamp(8),
       Response_Date |-> Timestamp(8 + ResponseTarget(p) + 1),
       Resolved_Date |-> ResolvedCell(p, 8, how),
       Steps_Completed |-> st,
       Reassignment_Count |-> n,
       Knowledge_Article_Created |-> kb,
       Customer_Satisfaction |-> cs] :
      p \in Priorities, c \in {"Network", "Facilities"},
      how \in {"at", "late", "open"},
      st \in GitHubStepTexts, n \in 1..MaxReassign,
      kb \in YesNo, cs \in {"Satisfied", "Dissatisfied"} }

\* rows of incidents_data.csv resolved seconds past the target or half the
\* target past it
GitHubTimedRows ==
    { [Incident_ID |-> "INC100001",
       Priority |-> p,
       Category |-> "Network",
       Manager_Email |-> "manager1@company.com",
       Created_Date |-> Timestamp(8),
       Response_Date |-> Timestamp(8 + ResponseTarget(p)),
       Resolved_Date |-> ResolvedCell(p, 8, how),
       Steps_Completed |-> Join(GitHubRules.incident_rules.required_steps.network),
       Reassignment_Count |-> 1,
       Knowledge_Article_Created |-> "Yes",
       Customer_Satisfaction |-> "Satisfied"] :
      p \in DOMAIN SlaTable, how \in {"second", "seconds", "half"} }

\* the incidents files load_incidents may read: at most MaxRagRows rows
RagIncidentFiles ==
    { [i \in DOMAIN cells |->
          [incident_id |-> i,
           category |-> cells[i][1],
           priority |-> "Medium",
           resolution_time_hours |-> 10,
           technician |-> "Technician_1",
           steps_taken |-> cells[i][2]]] :
      cells \in SeqUpTo({"Network", "APPLICATION", "User Support"}
                        \X SeqUpTo(StepSymbols, MaxTextLen), MaxRagRows) }

\* the resolution_time_hours tried, in whole hours: at, just over and well
\* over the standards and the 20% margins
RagHours == {4, 5, 15, 28, 29, 58, 116}

\* incidents files whose rows differ in priority and resolution time
RagTimedFiles ==
    { [i \in DOMAIN cells |->
          [incident_id |-> i,
           category |-> "Network",
           priority |-> cells[i][1],
           resolution_time_hours |-> cells[i][2],
           technician |-> "Technician_1",
           steps_taken |-> <<"a">>]] :
      cells \in SeqUpTo({"Critical", "High", "Medium", "Low"} \X RagHours, MaxRagRows) }

\* the rows of the sheet load_data may read; Sep stands for ' -> '
ProcessRows ==
    { [incident_id |-> "INC00001", category |-> category, actual_process |-> text] :
      category \in {"Network", "Application", "Facilities"},
      text \in SeqUpTo(StepSymbols, MaxTextLen) }

\* a row that follows the standard process of its category
StandardRow ==
    [incident_id |-> "INC00002", category |-> "Network", actual_process |-> <<"a", Sep, "A">>]

\* the sheets load_data may read: none, one or two rows
ProcessFiles ==
    {<<>>} \cup {<<row>> : row \in ProcessRows} \cup {<<row, StandardRow>> : row \in ProcessRows}

\* the priority, Created_Date and resolution of the rows of the
\* incidents_data.csv main() reads: incidents created at 8 and resolved at the
\* target, a quarter past it, or not at all, and open incidents created so that
\* the deadline is 8 quarters after 80
MainCells ==
    {<<p, 8, how>> : p \in {"Critical", "High", "Urgent"}, how \in {"at", "late", "open"}}
    \cup {<<p, 80 + 8 - ResolutionTarget(p), "open">> : p \in {"Critical", "High", "Urgent"}}

\* the managers generate_incidents_v2 assigns; here the lines of the file
\* get them in turn
MainManagers == <<"manager1@company.com", "manager2@company.com">>

\* the i-th line of incidents_data.csv; the Resolved_Date field of an open
\* incident is empty
MainRow(i, cell) ==
    [Incident_ID |-> i,
     Priority |-> cell[1],
     Category |-> "Network",
     Manager_Email |-> MainManagers[((i - 1) % Len(MainManagers)) + 1],
     Created_Date |-> Timestamp(cell[2]),
     Response_Date |-> Timestamp(cell[2] + 1),
     Resolved_Date |-> IF cell[3] = "open" THEN EmptyString
                       ELSE ResolvedCell(cell[1], cell[2], cell[3]),
     Steps_Completed |-> Join(GitHubRules.incident_rules.required_steps.network),
     Reassignment_Count |-> 1,
     Knowledge_Article_Created |-> "Yes",
     Customer_Satisfaction |-> "Satisfied"]

IncidentFiles ==
    {[i \in DOMAIN cells |-> MainRow(i, cells[i])] : cells \in SeqUpTo(MainCells, MaxRows)}

\* the times datetime.now() may give when main() runs
Nows == {80, 81}

\* the i-th line of changes_data.csv as generate_changes_v2 writes it: a
\* Standard change with its approval, a Normal one with the Manager's only
MainChange(i, type) ==
    [Change_ID |-> i,
     Manager_Email |-> "manager1@company.com",
     Type |-> type,
     Risk_Level |-> "Low",
     Obtained_Approvals |-> RoleName(IF type = "Standard" THEN "Pre-Approved" ELSE "Manager"),
     Testing_Required |-> "No",
     Testing_Completed |-> "Yes",
     Rollback_Plan_Documented |-> "Yes",
     Implemented_During_Blackout |-> "No",
     Post_Implementation_Review_Completed |-> "Yes",
     Knowledge_Base_Updated |-> "Yes"]

ChangeFiles ==
    {[i \in DOMAIN types |-> MainChange(i, types[i])] :
        types \in SeqUpTo({"Standard", "Normal"}, MaxChangeRows)}

\* the i-th line of the incidents_data.csv main() of run_itsm_analysis.py
\* reads: answered and resolved at the targets, with the Priority and the
\* Steps_Completed text of the cell
ComplexRow(i, cell) ==
    [Incident_ID |-> i,
     Priority |-> cell[1],
     Category |-> "Network",
     Created_Date |-> Timestamp(8),
     Response_Date |-> Timestamp(8 + ResponseTarget(cell[1])),
     Resolved_Date |-> ResolvedCell(cell[1], 8, "at"),
     Steps_Completed |-> cell[2],
     Reassignment_Count |-> 1,
     Knowledge_Article_Created |-> "Yes",
     Customer_Satisfaction |-> "Satisfied"]

\* files whose rows have a Priority of the SLA table or another one, and a
\* Steps_Completed cell that is filled or empty
ComplexIncidentFiles ==
    {[i \in DOMAIN cells |-> ComplexRow(i, cells[i])] :
        cells \in SeqUpTo({"Critical", "Low", "Urgent"} \X {<<"a">>, <<>>}, MaxComplexRows)}

\* the changes files main() of run_itsm_analysis.py reads
ComplexChangeFiles ==
    {[i \in DOMAIN types |-> MainChange(i, types[i])] :
        types \in SeqUpTo({"Standard", "Normal"}, MaxComplexRows)}

\* the i-th row of the incidents_data.csv complete-itsm-agent-production.py
\* loads; a Missing_Steps of <<>> is the NaN that read_csv gives for a cell
\* it takes as missing
JiraRow(i, cell) ==
    [Incident_ID |-> i,
     Category |-> "Network",
     Priority |-> cell[1],
     Manager_Email |-> "manager1@company.com",
     Technician_Name |-> "Technician_1",
     SLA_Breached |-> cell[2],
     SLA_Target_Hours |-> ResolutionTarget(cell[1]),
     Resolution_Hours |-> ResolutionTarget(cell[1]) + (IF cell[2] = "Yes" THEN 1 ELSE 0),
     Missing_Steps |-> cell[3],
     Knowledge_Article_Created |-> cell[4],
     Reassignment_Count |-> cell[5]]

JiraIncidentFiles ==
    {[i \in DOMAIN cells |-> JiraRow(i, cells[i])] :
        cells \in SeqUpTo({"Critical", "Medium"} \X YesNo
                          \X {NoneText, <<>>, <<"Testing">>} \X YesNo
                          \X (1..MaxReassign), MaxJiraRows)}

\* the i-th row of changes_data.csv as complete-itsm-agent-production.py reads
\* it: cell is <<Manager_Email, Risk_Level, Testing_Required,
\* Testing_Completed, Rollback_Plan_Documented, Missing_Approvals>>
JiraChangeRow(i, cell) ==
    [Change_ID |-> i,
     Category |-> "Network",
     Risk_Level |-> cell[2],
     Manager_Email |-> cell[1],
     Technician_Name |-> "Technician_1",
     Required_Approvals |-> <<"Manager", "CAB">>,
     Missing_Approvals |-> cell[6],
     Testing_Required |-> cell[3],
     Testing_Completed |-> cell[4],
     Rollback_Plan_Documented |-> cell[5],
     Post_Implementation_Review_Completed |-> "Yes"]

\* the changes files analyze_change_compliance is tried on
JiraChangeFiles ==
    {[i \in DOMAIN cells |-> JiraChangeRow(i, cells[i])] :
        cells \in SeqUpTo({"manager1@company.com"} \X {"High", "Low"} \X YesNo \X YesNo
                          \X YesNo \X {NoneText, <<"CAB">>}, MaxChangeRows)}

\* what a run of the whole script reads: incidents and changes whose
\* Manager_Email cell is filled or empty, and Jira issues with a priority
\* name of Jira's, with another one, or with none
ScriptIncidentFiles ==
    {[i \in DOMAIN cells |->
         [JiraRow(i, <<"Critical", cells[i][2], NoneText, "Yes", 1>>)
            EXCEPT !.Manager_Email = cells[i][1]]] :
        cells \in SeqUpTo({"manager1@company.com", NanEmail} \X YesNo, MaxJiraRows)}

ScriptChangeFiles ==
    {[i \in DOMAIN cells |->
         JiraChangeRow(i, <<cells[i][1], "Low", "No", cells[i][2], "Yes", NoneText>>)] :
        cells \in SeqUpTo({"manager1@company.com", NanEmail} \X YesNo, MaxChangeRows)}

JiraIssueBatches ==
    {[i \in DOMAIN names |-> [key |-> i, priority |-> names[i]]] :
        names \in SeqUpTo({"Highest", "Blocker", ""}, MaxJiraRows)}

\* what the REST call of a connector may return: records created at 8 that
\* are open, or were resolved 48 hours or 48 hours and a quarter later
ConnectorRecords(priorities) ==
    {[i \in DOMAIN cells |->
         [key |-> i, priority |-> cells[i][1], created |-> Timestamp(8),
          resolved |-> cells[i][2]]] :
        cells \in SeqUpTo(priorities \X {EmptyString, Timestamp(200), Timestamp(201)},
                          MaxRows)}

JiraPriorityNames == {"Highest", "High", "Medium", "Low", "Lowest"}

ServiceNowPriorityNames ==
    {"1 - Critical", "2 - High", "3 - Moderate", "4 - Low", "5 - Planning",
     "1", "2", "3", "4", "5"}

ChangeTypes == {"Standard", "Normal", "Emergency", "Expedited"}

ChangeRows ==
    { [Change_ID |-> "CHG200000",
       Manager_Email |-> "manager1@company.com",
       Type |-> t,
       Risk_Level |-> r,
       Obtained_Approvals |-> ap,
       Testing_Required |-> f[1],
       Testing_Completed |-> f[2],
       Rollback_Plan_Documented |-> f[3],
       Implemented_During_Blackout |-> f[4],
       Post_Implementation_Review_Completed |-> f[5],
       Knowledge_Base_Updated |-> f[6]] :
      t \in ChangeTypes, r \in {"High", "Low"},
      ap \in ApprovalTexts, f \in [1..6 -> YesNo] }

\* no row in hand
NoIncident ==
    [Incident_ID |-> "", Priority |-> "", Category |-> "", Created_Date |-> NaN,
     Response_Date |-> NaN, Resolved_Date |-> NaN, Steps_Completed |-> <<>>,
     Reassignment_Count |-> 0, Knowledge_Article_Created |-> "",
     Customer_Satisfaction |-> ""]

NoChange ==
    [Change_ID |-> "", Manager_Email |-> "", Type |-> "", Risk_Level |-> "", Obtained_Approvals |-> <<>>,
     Testing_Required |-> "", Testing_Completed |-> "", Rollback_Plan_Documented |-> "",
     Implemented_During_Blackout |-> "", Post_Implementation_Review_Completed |-> "",
     Knowledge_Base_Updated |-> ""]

-----------------------------------------------------------------------------
(* The evaluators, called one ticket at a time *)

\* DocumentRetrievalAgent.__init__ has parsed both documents
Init ==
    /\ incident_rules \in {ParseIncidentRules(steps) : steps \in StepCatalogs}
    /\ change_rules = ParseChangeRules
    /\ github_rules = GitHubRules
    /\ rules_db = RagRulesDb(RagStepCatalog)
    /\ incidents_data = <<>>
    /\ jira_rules = EmptyDict
    /\ csv_incidents_df = <<>>
    /\ op = "idle"
    /\ incident = NoIncident
    /\ change = NoChange
    /\ result = Raised("nothing")
    /\ pc = "off"
    /\ incidents_df = <<>>
    /\ changes_df = <<>>
    /\ incident_results = <<>>
    /\ change_results = <<>>
    /\ current_time = 0
    /\ at_risk = <<>>
    /\ manager_data = EmptyDict
    /\ jira_change_rules = EmptyDict
    /\ csv_changes_df = <<>>
    /\ jira_incidents = <<>>
    /\ incident_devs = <<>>
    /\ change_devs = <<>>
    /\ reports = EmptyDict
    /\ sent = {}
    /\ fetched = <<>>
    /\ results = <<>>
    /\ historical_data = <<>>
    /\ attempts = <<>>
    /\ runs = 0
    /\ run_steps = <<>>
    /\ agent_data = <<>>
    /\ count = 0
    /\ posted = <<>>
    /\ created_count = 0
    /\ failed_count = 0

\* result = analysis_agent.analyze_incident(incident)
AnalyzeIncident ==
    /\ op = "idle"
    /\ \E row \in IncidentRows \cup TimedIncidentRows :
          /\ incident' = row
          /\ result' = analyze_incident(row)
    /\ op' = "analyze_incident"
    /\ UNCHANGED <<rules, agent_fields, scheduler_vars, tool_vars, incidents_data, change, main_vars, jira_vars>>

\* result = analysis_agent.analyze_incident(incident), run_itsm_main_agent.py
IntelligentAnalyzeIncident ==
    /\ op = "idle"
    /\ \E row \in GitHubIncidentRows \cup GitHubTimedRows :
          /\ incident' = row
          /\ result' = Intelligent_analyze_incident(row)
    /\ op' = "Intelligent_analyze_incident"
    /\ UNCHANGED <<rules, agent_fields, scheduler_vars, tool_vars, incidents_data, change, main_vars, jira_vars>>

\* result = analysis_agent.analyze_change(change)
AnalyzeChange ==
    /\ op = "idle"
    /\ \E row \in ChangeRows :
          /\ change' = row
          /\ result' = analyze_change(row)
    /\ op' = "analyze_change"
    /\ UNCHANGED <<rules, agent_fields, scheduler_vars, tool_vars, incidents_data, incident, main_vars, jira_vars>>

\* result = analysis_agent.analyze_change(change), run_itsm_main_agent.py
IntelligentAnalyzeChange ==
    /\ op = "idle"
    /\ \E row \in ChangeRows :
          /\ change' = row
          /\ result' = Intelligent_analyze_change(row)
    /\ op' = "Intelligent_analyze_change"
    /\ UNCHANGED <<rules, agent_fields, scheduler_vars, tool_vars, incidents_data, incident, main_vars, jira_vars>>

\* analysis_agent.load_incidents(file), itsm_multiagent_rag.py
LoadIncidents ==
    /\ op = "idle"
    /\ incidents_data' \in RagIncidentFiles \cup RagTimedFiles
    /\ op' = "load_incidents"
    /\ UNCHANGED <<rules, agent_fields, scheduler_vars, tool_vars, incident, change, result, main_vars, jira_vars>>

\* agent.load_data() and agent.analyze_process_compliance(), main() of
\* itsm_agent_complete.py
AnalyzeProcessCompliance ==
    /\ op = "idle"
    /\ agent_data' \in ProcessFiles
    /\ result' = analyze_process_compliance(agent_data')
    /\ op' = "analyze_process_compliance"
    /\ UNCHANGED <<rules, agent_fields, scheduler_vars, creator_vars, incidents_data, incident, change, main_vars, jira_vars>>

\* time_devs = self.analyze_time_deviations(), itsm_multiagent_rag.py
AnalyzeTimeDeviations ==
    /\ op = "load_incidents"
    /\ result' = analyze_time_deviations
    /\ op' = "analyze_time_deviations"
    /\ UNCHANGED <<rules, agent_fields, scheduler_vars, tool_vars, incidents_data, incident, change, main_vars, jira_vars>>

\* process_devs = self.analyze_process_deviations(), itsm_multiagent_rag.py
AnalyzeProcessDeviations ==
    /\ op = "load_incidents"
    /\ result' = analyze_process_deviations
    /\ op' = "analyze_process_deviations"
    /\ UNCHANGED <<rules, agent_fields, scheduler_vars, tool_vars, incidents_data, incident, change, main_vars, jira_vars>>

\* GitHubRulesAgent(): each rule set is assigned once its document is fetched
FetchRulesFromGithub ==
    /\ op = "idle"
    /\ \E outcome \in FetchOutcomes :
          /\ jira_rules' = RulesAfterFetch(outcome).incident_rules
          /\ jira_change_rules' = RulesAfterFetch(outcome).change_rules
    /\ op' = "fetch_rules_from_github"
    /\ UNCHANGED <<rules, agent_fields, scheduler_vars, tool_vars, csv_incidents_df, incidents_data, incident, change, result,
                   main_vars, jira_data, report_vars>>

\* data_agent.load_csv_incidents()
LoadCsvIncidents ==
    /\ op = "fetch_rules_from_github"
    /\ csv_incidents_df' \in JiraIncidentFiles
    /\ op' = "load_csv_incidents"
    /\ UNCHANGED <<rules, agent_fields, scheduler_vars, tool_vars, jira_rules, jira_change_rules, incidents_data, incident, change,
                   result, main_vars, jira_data, report_vars>>

\* data_agent.load_csv_changes()
LoadCsvChanges ==
    /\ op = "fetch_rules_from_github"
    /\ csv_changes_df' \in JiraChangeFiles
    /\ op' = "load_csv_changes"
    /\ UNCHANGED <<rules, agent_fields, scheduler_vars, tool_vars, jira_rules, jira_change_rules, csv_incidents_df, jira_incidents,
                   fetched, incidents_data, incident, change, result, main_vars,
                   report_vars>>

\* change_devs = analyzer.analyze_change_compliance()
AnalyzeChangeCompliance ==
    /\ op = "load_csv_changes"
    /\ result' = analyze_change_compliance
    /\ op' = "analyze_change_compliance"
    /\ UNCHANGED <<rules, agent_fields, scheduler_vars, tool_vars, jira_vars, incidents_data, incident, change, main_vars>>

\* incident_devs = analyzer.analyze_incident_compliance()
AnalyzeIncidentCompliance ==
    /\ op = "load_csv_incidents"
    /\ result' = analyze_incident_compliance
    /\ op' = "analyze_incident_compliance"
    /\ UNCHANGED <<rules, agent_fields, scheduler_vars, tool_vars, jira_vars, incidents_data, incident, change, main_vars>>

\* the caller's loop takes the next row, or the script is run again
NextRow ==
    /\ op \notin {"idle", "load_incidents", "fetch_rules_from_github", "load_csv_incidents",
                  "load_csv_changes"}
    /\ op' = "idle"
    /\ incidents_data' = <<>>
    /\ jira_rules' = EmptyDict
    /\ jira_change_rules' = EmptyDict
    /\ csv_incidents_df' = <<>>
    /\ csv_changes_df' = <<>>
    /\ incident' = NoIncident
    /\ change' = NoChange
    /\ result' = Raised("nothing")
    /\ agent_data' = <<>>
    /\ UNCHANGED <<rules, agent_fields, scheduler_vars, creator_vars, main_vars, jira_incidents, fetched, report_vars>>

Next ==
    \/ AnalyzeIncident
    \/ AnalyzeChange
    \/ IntelligentAnalyzeIncident
    \/ IntelligentAnalyzeChange
    \/ LoadIncidents
    \/ AnalyzeTimeDeviations
    \/ AnalyzeProcessDeviations
    \/ AnalyzeProcessCompliance
    \/ FetchRulesFromGithub
    \/ LoadCsvIncidents
    \/ AnalyzeIncidentCompliance
    \/ LoadCsvChanges
    \/ AnalyzeChangeCompliance
    \/ NextRow

Spec == Init /\ [][Next]_vars

-----------------------------------------------------------------------------
(* main() of run_itsm_main_agent.py *)

\* main() is about to read its files; github_rules is what the
\* GitHubDocumentAgent it then builds holds
InitMA ==
    /\ incident_rules \in {ParseIncidentRules(steps) : steps \in StepCatalogs}
    /\ change_rules = ParseChangeRules
    /\ github_rules = GitHubRules
    /\ rules_db = RagRulesDb(RagStepCatalog)
    /\ incidents_data = <<>>
    /\ jira_rules = EmptyDict
    /\ csv_incidents_df = <<>>
    /\ op = "idle"
    /\ incident = NoIncident
    /\ change = NoChange
    /\ result = Raised("nothing")
    /\ pc = "read_csv"
    /\ incidents_df = <<>>
    /\ changes_df = <<>>
    /\ incident_results = <<>>
    /\ change_results = <<>>
    /\ current_time = 0
    /\ at_risk = <<>>
    /\ manager_data = EmptyDict
    /\ jira_change_rules = EmptyDict
    /\ csv_changes_df = <<>>
    /\ jira_incidents = <<>>
    /\ incident_devs = <<>>
    /\ change_devs = <<>>
    /\ reports = EmptyDict
    /\ sent = {}
    /\ fetched = <<>>
    /\ results = <<>>
    /\ historical_data = <<>>
    /\ attempts = <<>>
    /\ runs = 0
    /\ run_steps = <<>>
    /\ agent_data = <<>>
    /\ count = 0
    /\ posted = <<>>
    /\ created_count = 0
    /\ failed_count = 0

\* incidents_df = pd.read_csv('incidents_data.csv') and
\* changes_df = pd.read_csv('changes_data.csv')
ReadCsv ==
    /\ pc = "read_csv"
    /\ \E file \in IncidentFiles : incidents_df' = read_csv(file)
    /\ changes_df' \in ChangeFiles
    /\ pc' = "analyze"
    /\ UNCHANGED <<rules, agent_fields, scheduler_vars, tool_vars, jira_vars, incidents_data, op, incident, change, result,
                   incident_results, change_results, current_time, at_risk, manager_data>>

\* what the loop would do with an evaluator that recorded each result in
\* self.historical_data
MainAnalyzeIncidentMutantRecords ==
    /\ pc = "analyze"
    /\ Len(incident_results) < Len(incidents_df)
    /\ LET row == incidents_df[Len(incident_results) + 1]
           returned == Intelligent_analyze_incident(row)
       IN  /\ incident' = row
           /\ result' = returned
           /\ IF returned.raised = "none"
              THEN /\ incident_results' = Append(incident_results, returned)
                   /\ historical_data' = Append(historical_data, returned)
                   /\ pc' = "analyze"
              ELSE /\ incident_results' = incident_results
                   /\ historical_data' = historical_data
                   /\ pc' = "crashed"
    /\ op' = "Intelligent_analyze_incident"
    /\ UNCHANGED <<rules, results, scheduler_vars, tool_vars, jira_vars, incidents_data, change, incidents_df,
                   changes_df, change_results, current_time, at_risk, manager_data>>

\* one pass of `for _, incident in incidents_df.iterrows()`; an exception of
\* analyze_incident is not caught and ends main()
MainAnalyzeIncident ==
    /\ pc = "analyze"
    /\ Len(incident_results) < Len(incidents_df)
    /\ LET row == incidents_df[Len(incident_results) + 1]
           returned == Intelligent_analyze_incident(row)
       IN  /\ incident' = row
           /\ result' = returned
           /\ IF returned.raised = "none"
              THEN incident_results' = Append(incident_results, returned) /\ pc' = "analyze"
              ELSE incident_results' = incident_results /\ pc' = "crashed"
    /\ op' = "Intelligent_analyze_incident"
    /\ UNCHANGED <<rules, agent_fields, scheduler_vars, tool_vars, jira_vars, incidents_data, change, incidents_df, changes_df,
                   change_results, current_time, at_risk, manager_data>>

\* one pass of `for _, change in changes_df.iterrows()`
MainAnalyzeChange ==
    /\ pc = "analyze"
    /\ Len(incident_results) = Len(incidents_df)
    /\ Len(change_results) < Len(changes_df)
    /\ LET row == changes_df[Len(change_results) + 1]
           returned == Intelligent_analyze_change(row)
       IN  /\ change' = row
           /\ result' = returned
           /\ IF returned.raised = "none"
              THEN change_results' = Append(change_results, returned) /\ pc' = "analyze"
              ELSE change_results' = change_results /\ pc' = "crashed"
    /\ op' = "Intelligent_analyze_change"
    /\ UNCHANGED <<rules, agent_fields, scheduler_vars, tool_vars, jira_vars, incidents_data, incident, incidents_df, changes_df,
                   incident_results, current_time, at_risk, manager_data>>

\* at_risk = analysis_agent.predict_sla_breaches(incidents_df)
MainPredictSlaBreaches ==
    /\ pc = "analyze"
    /\ Len(incident_results) = Len(incidents_df)
    /\ Len(change_results) = Len(changes_df)
    /\ \E now \in Nows :
          LET returned == predict_sla_breaches(incidents_df, now)
          IN  /\ current_time' = now
              /\ result' = returned
              /\ IF returned.raised = "none"
                 THEN at_risk' = returned.at_risk /\ pc' = "export_to_csv"
                 ELSE at_risk' = at_risk /\ pc' = "crashed"
    /\ op' = "predict_sla_breaches"
    /\ UNCHANGED <<rules, agent_fields, scheduler_vars, tool_vars, jira_vars, incidents_data, incident, change, incidents_df, changes_df,
                   incident_results, change_results, manager_data>>

\* files = export_to_csv(...) writes the three CSV reports; then
\* email_agent.send_manager_reports(all_results, at_risk), where an email
\* goes out unless _send_email skips the manager or the SMTP exchange raises
MainSendManagerReports ==
    /\ pc = "export_to_csv"
    /\ manager_data' = ManagerData(incident_results \o change_results, at_risk)
    /\ \E outcomes \in OutcomesFor(ManagerItems(incident_results \o change_results, at_risk)) :
          attempts' = send_manager_reports(incident_results \o change_results,
                                           at_risk, outcomes)
    /\ sent' = Delivered(attempts')
    /\ pc' = "summary"
    /\ UNCHANGED <<rules, agent_fields, scheduler_vars, tool_vars, incidents_data, op, incident, change, result, incidents_df,
                   changes_df, incident_results, change_results, current_time, at_risk,
                   jira_rules, jira_change_rules, csv_incidents_df, jira_data,
                   incident_devs, change_devs, reports>>

NextMA ==
    \/ ReadCsv
    \/ MainAnalyzeIncident
    \/ MainAnalyzeChange
    \/ MainPredictSlaBreaches
    \/ MainSendManagerReports

SpecMA == InitMA /\ [][NextMA]_vars

-----------------------------------------------------------------------------
(* main() of run_itsm_analysis.py *)

\* main() has built its two agents and is about to load the CSV files
InitComplex ==
    /\ incident_rules \in {ParseIncidentRules(steps) : steps \in StepCatalogs}
    /\ change_rules = ParseChangeRules
    /\ github_rules = GitHubRules
    /\ rules_db = RagRulesDb(RagStepCatalog)
    /\ incidents_data = <<>>
    /\ jira_rules = EmptyDict
    /\ csv_incidents_df = <<>>
    /\ op = "idle"
    /\ incident = NoIncident
    /\ change = NoChange
    /\ result = Raised("nothing")
    /\ pc = "load_csv_data"
    /\ incidents_df = <<>>
    /\ changes_df = <<>>
    /\ incident_results = <<>>
    /\ change_results = <<>>
    /\ current_time = 0
    /\ at_risk = <<>>
    /\ manager_data = EmptyDict
    /\ jira_change_rules = EmptyDict
    /\ csv_changes_df = <<>>
    /\ jira_incidents = <<>>
    /\ incident_devs = <<>>
    /\ change_devs = <<>>
    /\ reports = EmptyDict
    /\ sent = {}
    /\ fetched = <<>>
    /\ results = <<>>
    /\ historical_data = <<>>
    /\ attempts = <<>>
    /\ runs = 0
    /\ run_steps = <<>>
    /\ agent_data = <<>>
    /\ count = 0
    /\ posted = <<>>
    /\ created_count = 0
    /\ failed_count = 0

\* the summary figures of create_email_report (lines 350-352 and 380) and of
\* the closing lines of main() (lines 527-528 and 540), the two percentages
\* in tenths; a division by a total of 0 raises ZeroDivisionError
create_email_report(incident_list, change_list) ==
    LET total_items == Len(incident_list) + Len(change_list)
        non_compliant == Len(NonCompliant(incident_list \o change_list))
    IN  IF total_items = 0 THEN Raised("ZeroDivisionError")
        ELSE [raised |-> "none",
              total_items |-> total_items,
              non_compliant |-> non_compliant,
              compliance_rate |-> RoundHalfEven(1000 * (total_items - non_compliant), total_items),
              non_compliant_pct |-> RoundHalfEven(1000 * non_compliant, total_items)]

\* load_csv_data() followed by no test of what it loaded
ComplexLoadCsvDataMutantNoReturn ==
    /\ pc = "load_csv_data"
    /\ incidents_df' \in ComplexIncidentFiles
    /\ changes_df' \in ComplexChangeFiles
    /\ pc' = "analyze"
    /\ UNCHANGED <<rules, agent_fields, scheduler_vars, tool_vars, jira_vars, incidents_data, call_vars, incident_results,
                   change_results, current_time, at_risk, manager_data>>

\* incidents_df, changes_df = load_csv_data(); main() returns when both are
\* empty
ComplexLoadCsvData ==
    /\ pc = "load_csv_data"
    /\ incidents_df' \in ComplexIncidentFiles
    /\ changes_df' \in ComplexChangeFiles
    /\ pc' = IF incidents_df' = <<>> /\ changes_df' = <<>> THEN "no_data" ELSE "analyze"
    /\ UNCHANGED <<rules, agent_fields, scheduler_vars, tool_vars, jira_vars, incidents_data, call_vars, incident_results,
                   change_results, current_time, at_risk, manager_data>>

\* what the loop would do with an evaluator that kept one deviations list in
\* self.results and went on appending to it from call to call
ComplexAnalyzeIncidentMutantStateful ==
    /\ pc = "analyze"
    /\ Len(incident_results) < Len(incidents_df)
    /\ LET row == incidents_df[Len(incident_results) + 1]
           evaluated == analyze_incident(row)
           returned == IF evaluated.raised = "none"
                       THEN ResultOf(row.Incident_ID, "Incident",
                                     results \o evaluated.deviations)
                       ELSE evaluated
       IN  /\ incident' = row
           /\ result' = returned
           /\ IF returned.raised = "none"
              THEN /\ incident_results' = Append(incident_results, returned)
                   /\ results' = returned.deviations
                   /\ pc' = "analyze"
              ELSE /\ incident_results' = incident_results
                   /\ results' = results
                   /\ pc' = "crashed"
    /\ op' = "analyze_incident"
    /\ UNCHANGED <<rules, historical_data, scheduler_vars, tool_vars, jira_vars, incidents_data, change, incidents_df,
                   changes_df, change_results, current_time, at_risk, manager_data>>

\* one pass of `for _, incident in incidents_df.iterrows()` (lines 504-506);
\* nothing catches an exception of analyze_incident, which ends main()
ComplexAnalyzeIncident ==
    /\ pc = "analyze"
    /\ Len(incident_results) < Len(incidents_df)
    /\ LET row == incidents_df[Len(incident_results) + 1]
           returned == analyze_incident(row)
       IN  /\ incident' = row
           /\ result' = returned
           /\ IF returned.raised = "none"
              THEN incident_results' = Append(incident_results, returned) /\ pc' = "analyze"
              ELSE incident_results' = incident_results /\ pc' = "crashed"
    /\ op' = "analyze_incident"
    /\ UNCHANGED <<rules, agent_fields, scheduler_vars, tool_vars, jira_vars, incidents_data, change, incidents_df, changes_df,
                   change_results, current_time, at_risk, manager_data>>

\* one pass of `for _, change in changes_df.iterrows()` (lines 514-516)
ComplexAnalyzeChange ==
    /\ pc = "analyze"
    /\ Len(incident_results) = Len(incidents_df)
    /\ Len(change_results) < Len(changes_df)
    /\ LET row == changes_df[Len(change_results) + 1]
           returned == analyze_change(row)
       IN  /\ change' = row
           /\ result' = returned
           /\ IF returned.raised = "none"
              THEN change_results' = Append(change_results, returned) /\ pc' = "analyze"
              ELSE change_results' = change_results /\ pc' = "crashed"
    /\ op' = "analyze_change"
    /\ UNCHANGED <<rules, agent_fields, scheduler_vars, tool_vars, jira_vars, incidents_data, incident, incidents_df, changes_df,
                   incident_results, current_time, at_risk, manager_data>>

\* the Power BI export, the report, its email and the closing summary (lines
\* 522-541); nothing catches an exception of create_email_report
ComplexReport ==
    /\ pc = "analyze"
    /\ Len(incident_results) = Len(incidents_df)
    /\ Len(change_results) = Len(changes_df)
    /\ result' = create_email_report(incident_results, change_results)
    /\ op' = "create_email_report"
    /\ pc' = IF result'.raised = "none" THEN "complete" ELSE "crashed"
    /\ UNCHANGED <<rules, agent_fields, scheduler_vars, tool_vars, jira_vars, incidents_data, incident, change, incidents_df,
                   changes_df, incident_results, change_results, current_time, at_risk, manager_data>>

NextComplex ==
    \/ ComplexLoadCsvData
    \/ ComplexAnalyzeIncident
    \/ ComplexAnalyzeChange
    \/ ComplexReport

SpecComplex == InitComplex /\ [][NextComplex]_vars

-----------------------------------------------------------------------------
(* main() of jira_connector.py and of servicenow_connector.py *)

\* a connector is about to fetch the incidents
InitConnector ==
    /\ incident_rules \in {ParseIncidentRules(steps) : steps \in StepCatalogs}
    /\ change_rules = ParseChangeRules
    /\ github_rules = GitHubRules
    /\ rules_db = RagRulesDb(RagStepCatalog)
    /\ incidents_data = <<>>
    /\ jira_rules = EmptyDict
    /\ csv_incidents_df = <<>>
    /\ op = "idle"
    /\ incident = NoIncident
    /\ change = NoChange
    /\ result = Raised("nothing")
    /\ pc = "fetch_incidents"
    /\ incidents_df = <<>>
    /\ changes_df = <<>>
    /\ incident_results = <<>>
    /\ change_results = <<>>
    /\ current_time = 0
    /\ at_risk = <<>>
    /\ manager_data = EmptyDict
    /\ jira_change_rules = EmptyDict
    /\ csv_changes_df = <<>>
    /\ jira_incidents = <<>>
    /\ incident_devs = <<>>
    /\ change_devs = <<>>
    /\ reports = EmptyDict
    /\ sent = {}
    /\ fetched = <<>>
    /\ results = <<>>
    /\ historical_data = <<>>
    /\ attempts = <<>>
    /\ runs = 0
    /\ run_steps = <<>>
    /\ agent_data = <<>>
    /\ count = 0
    /\ posted = <<>>
    /\ created_count = 0
    /\ failed_count = 0

\* incidents_df = connector.fetch_incidents(), jira_connector.py: the frame
\* main() then saves as incidents_data.csv; only a RequestException is caught
JiraFetchIncidents ==
    /\ pc = "fetch_incidents"
    /\ \E issues \in ConnectorRecords({"Highest", "Medium", "Blocker", NoPriorityKey,
                                      NullPriority}) :
          LET returned == Jira_transform_incidents(issues)
          IN  /\ fetched' = issues
              /\ result' = returned
              /\ IF returned.raised = "none"
                 THEN incidents_df' = returned.frame /\ pc' = "incidents_data.csv"
                 ELSE incidents_df' = incidents_df /\ pc' = "crashed"
    /\ op' = "JiraConnector"
    /\ UNCHANGED <<rules, agent_fields, scheduler_vars, tool_vars, incidents_data, incident, change, changes_df, incident_results,
                   change_results, current_time, at_risk, manager_data, jira_rules,
                   jira_change_rules, csv_incidents_df, csv_changes_df, jira_incidents,
                   report_vars>>

\* incidents_df = connector.fetch_incidents(), servicenow_connector.py
ServiceNowFetchIncidents ==
    /\ pc = "fetch_incidents"
    /\ \E incidents \in ConnectorRecords({"1 - Critical", "3", "6", NoPriorityKey}) :
          LET returned == ServiceNow_transform_incidents(incidents)
          IN  /\ fetched' = incidents
              /\ result' = returned
              /\ incidents_df' = returned.frame
    /\ pc' = "incidents_data.csv"
    /\ op' = "ServiceNowConnector"
    /\ UNCHANGED <<rules, agent_fields, scheduler_vars, tool_vars, incidents_data, incident, change, changes_df, incident_results,
                   change_results, current_time, at_risk, manager_data, jira_rules,
                   jira_change_rules, csv_incidents_df, csv_changes_df, jira_incidents,
                   report_vars>>

NextConnector ==
    \/ JiraFetchIncidents
    \/ ServiceNowFetchIncidents

SpecConnector == InitConnector /\ [][NextConnector]_vars

-----------------------------------------------------------------------------
(* complete-itsm-agent-production.py run from its first line to its last *)

\* the script is about to build its GitHubRulesAgent
InitJira ==
    /\ incident_rules \in {ParseIncidentRules(steps) : steps \in StepCatalogs}
    /\ change_rules = ParseChangeRules
    /\ github_rules = GitHubRules
    /\ rules_db = RagRulesDb(RagStepCatalog)
    /\ incidents_data = <<>>
    /\ jira_rules = EmptyDict
    /\ csv_incidents_df = <<>>
    /\ op = "idle"
    /\ incident = NoIncident
    /\ change = NoChange
    /\ result = Raised("nothing")
    /\ pc = "GitHubRulesAgent"
    /\ incidents_df = <<>>
    /\ changes_df = <<>>
    /\ incident_results = <<>>
    /\ change_results = <<>>
    /\ current_time = 0
    /\ at_risk = <<>>
    /\ manager_data = EmptyDict
    /\ jira_change_rules = EmptyDict
    /\ csv_changes_df = <<>>
    /\ jira_incidents = <<>>
    /\ incident_devs = <<>>
    /\ change_devs = <<>>
    /\ reports = EmptyDict
    /\ sent = {}
    /\ fetched = <<>>
    /\ results = <<>>
    /\ historical_data = <<>>
    /\ attempts = <<>>
    /\ runs = 0
    /\ run_steps = <<>>
    /\ agent_data = <<>>
    /\ count = 0
    /\ posted = <<>>
    /\ created_count = 0
    /\ failed_count = 0

\* rules_agent = GitHubRulesAgent(); the except branch prints and returns
ScriptGitHubRulesAgent ==
    /\ pc = "GitHubRulesAgent"
    /\ \E outcome \in FetchOutcomes :
          /\ jira_rules' = RulesAfterFetch(outcome).incident_rules
          /\ jira_change_rules' = RulesAfterFetch(outcome).change_rules
    /\ pc' = "fetch_live_jira_incidents"
    /\ UNCHANGED <<rules, agent_fields, scheduler_vars, tool_vars, incidents_data, call_vars, incidents_df, changes_df,
                   incident_results, change_results, current_time, at_risk, manager_data,
                   csv_incidents_df, jira_data, report_vars>>

\* data_agent.fetch_live_jira_incidents(); the outer except empties the list
ScriptFetchLiveJiraIncidents ==
    /\ pc = "fetch_live_jira_incidents"
    /\ \/ \E issues \in JiraIssueBatches : jira_incidents' = LiveIncidentsFrom(issues, 1)
       \/ jira_incidents' = <<>>
    /\ pc' = "load_csv_incidents"
    /\ UNCHANGED <<rules, agent_fields, scheduler_vars, tool_vars, incidents_data, call_vars, incidents_df, changes_df,
                   incident_results, change_results, current_time, at_risk, manager_data,
                   jira_rules, jira_change_rules, csv_incidents_df, csv_changes_df,
                   fetched, report_vars>>

\* data_agent.load_csv_incidents()
ScriptLoadCsvIncidents ==
    /\ pc = "load_csv_incidents"
    /\ csv_incidents_df' \in ScriptIncidentFiles
    /\ pc' = "load_csv_changes"
    /\ UNCHANGED <<rules, agent_fields, scheduler_vars, tool_vars, incidents_data, call_vars, incidents_df, changes_df,
                   incident_results, change_results, current_time, at_risk, manager_data,
                   jira_rules, jira_change_rules, jira_data, report_vars>>

\* data_agent.load_csv_changes()
ScriptLoadCsvChanges ==
    /\ pc = "load_csv_changes"
    /\ csv_changes_df' \in ScriptChangeFiles
    /\ pc' = "analyze_incident_compliance"
    /\ UNCHANGED <<rules, agent_fields, scheduler_vars, tool_vars, incidents_data, call_vars, incidents_df, changes_df,
                   incident_results, change_results, current_time, at_risk, manager_data,
                   jira_rules, jira_change_rules, csv_incidents_df, jira_incidents,
                   fetched, report_vars>>

\* incident_devs = analyzer.analyze_incident_compliance(); an exception ends
\* the script
ScriptAnalyzeIncidentCompliance ==
    /\ pc = "analyze_incident_compliance"
    /\ IF analyze_incident_compliance.raised = "none"
       THEN /\ incident_devs' = analyze_incident_compliance.deviations
            /\ pc' = "analyze_change_compliance"
       ELSE /\ incident_devs' = incident_devs
            /\ pc' = "crashed"
    /\ UNCHANGED <<rules, agent_fields, scheduler_vars, tool_vars, incidents_data, call_vars, incidents_df, changes_df,
                   incident_results, change_results, current_time, at_risk, manager_data,
                   jira_rules, jira_change_rules, csv_incidents_df, jira_data,
                   change_devs, reports, sent, attempts>>

\* change_devs = analyzer.analyze_change_compliance()
ScriptAnalyzeChangeCompliance ==
    /\ pc = "analyze_change_compliance"
    /\ change_devs' = analyze_change_compliance.deviations
    /\ pc' = "send_professional_reports"
    /\ UNCHANGED <<rules, agent_fields, scheduler_vars, tool_vars, incidents_data, call_vars, incidents_df, changes_df,
                   incident_results, change_results, current_time, at_risk, manager_data,
                   jira_rules, jira_change_rules, csv_incidents_df, jira_data,
                   incident_devs, reports, sent, attempts>>

\* analyzer.send_professional_reports(incident_devs, change_devs): one email
\* for each address of the managers set; a send that raises is printed and
\* the loop goes on
ScriptSendProfessionalReports ==
    /\ pc = "send_professional_reports"
    /\ reports' = send_professional_reports(incident_devs, change_devs)
    /\ \E outcomes \in OutcomesFor(ManagersInOrder(DOMAIN reports')) :
          attempts' = ProfessionalSendFrom(ManagersInOrder(DOMAIN reports'), reports',
                                           outcomes, 1)
    /\ sent' = Delivered(attempts')
    /\ pc' = "completed"
    /\ UNCHANGED <<rules, agent_fields, scheduler_vars, tool_vars, incidents_data, call_vars, incidents_df, changes_df,
                   incident_results, change_results, current_time, at_risk, manager_data,
                   jira_rules, jira_change_rules, csv_incidents_df, jira_data,
                   incident_devs, change_devs>>

NextJira ==
    \/ ScriptGitHubRulesAgent
    \/ ScriptFetchLiveJiraIncidents
    \/ ScriptLoadCsvIncidents
    \/ ScriptLoadCsvChanges
    \/ ScriptAnalyzeIncidentCompliance
    \/ ScriptAnalyzeChangeCompliance
    \/ ScriptSendProfessionalReports

SpecJira == InitJira /\ [][NextJira]_vars

-----------------------------------------------------------------------------
(* scheduler.py: main() and run_realtime_analysis *)

\* what os.system returns: the exit status of the command, 0 or not
ExitStatuses == {0, 1}

\* setup_schedules() has registered the hourly job
InitScheduler ==
    /\ incident_rules \in {ParseIncidentRules(catalog) : catalog \in StepCatalogs}
    /\ change_rules = ParseChangeRules
    /\ github_rules = GitHubRules
    /\ rules_db = RagRulesDb(RagStepCatalog)
    /\ incidents_data = <<>>
    /\ jira_rules = EmptyDict
    /\ csv_incidents_df = <<>>
    /\ op = "idle"
    /\ incident = NoIncident
    /\ change = NoChange
    /\ result = Raised("nothing")
    /\ pc = "run_pending"
    /\ incidents_df = <<>>
    /\ changes_df = <<>>
    /\ incident_results = <<>>
    /\ change_results = <<>>
    /\ current_time = 0
    /\ at_risk = <<>>
    /\ manager_data = EmptyDict
    /\ jira_change_rules = EmptyDict
    /\ csv_changes_df = <<>>
    /\ jira_incidents = <<>>
    /\ incident_devs = <<>>
    /\ change_devs = <<>>
    /\ reports = EmptyDict
    /\ sent = {}
    /\ fetched = <<>>
    /\ results = <<>>
    /\ historical_data = <<>>
    /\ attempts = <<>>
    /\ runs = 0
    /\ run_steps = <<>>
    /\ agent_data = <<>>
    /\ count = 0
    /\ posted = <<>>
    /\ created_count = 0
    /\ failed_count = 0

\* what scheduler.py leaves alone
not_scheduler_vars ==
    <<rules, agent_fields, incidents_data, call_vars, incidents_df, changes_df,
      incident_results, change_results, current_time, at_risk, manager_data, jira_vars,
      tool_vars>>

\* schedule.run_pending() finds the hourly job due and calls
\* run_realtime_analysis, which prints its banner
RunPending ==
    /\ pc = "run_pending"
    /\ runs < MaxRuns
    /\ runs' = runs + 1
    /\ run_steps' = <<>>
    /\ pc' = "Step 1"
    /\ UNCHANGED not_scheduler_vars

\* Step 1: os.system('python servicenow_connector.py') starts the command
FetchStarted ==
    /\ pc = "Step 1"
    /\ run_steps' = Append(run_steps, [command |-> "python servicenow_connector.py",
                                       event |-> "started"])
    /\ pc' = "python servicenow_connector.py"
    /\ UNCHANGED <<runs, not_scheduler_vars>>

\* os.system returns once the command has ended, with its exit status, which
\* run_realtime_analysis does not look at
FetchReturned ==
    /\ pc = "python servicenow_connector.py"
    /\ \E status \in ExitStatuses :
          run_steps' = Append(run_steps, [command |-> "python servicenow_connector.py",
                                          event |-> "returned", status |-> status])
    /\ pc' = "Step 2"
    /\ UNCHANGED <<runs, not_scheduler_vars>>

\* the second command started without waiting for the first to end
AnalysisStartedMutantNotAwaited ==
    /\ pc \in {"python servicenow_connector.py", "Step 2"}
    /\ run_steps' = Append(run_steps, [command |-> "python run_itsm_final_clear.py",
                                       event |-> "started"])
    /\ pc' = "python run_itsm_final_clear.py"
    /\ UNCHANGED <<runs, not_scheduler_vars>>

\* Step 2: os.system('python run_itsm_final_clear.py') starts the command
AnalysisStarted ==
    /\ pc = "Step 2"
    /\ run_steps' = Append(run_steps, [command |-> "python run_itsm_final_clear.py",
                                       event |-> "started"])
    /\ pc' = "python run_itsm_final_clear.py"
    /\ UNCHANGED <<runs, not_scheduler_vars>>

\* os.system returns; the run is reported completed and main() goes back to
\* its loop
AnalysisReturned ==
    /\ pc = "python run_itsm_final_clear.py"
    /\ \E status \in ExitStatuses :
          run_steps' = Append(run_steps, [command |-> "python run_itsm_final_clear.py",
                                          event |-> "returned", status |-> status])
    /\ pc' = "run_pending"
    /\ UNCHANGED <<runs, not_scheduler_vars>>

\* Ctrl+C: KeyboardInterrupt is no Exception, so it passes the except of
\* run_realtime_analysis and main() exits
KeyboardInterrupt ==
    /\ pc \in {"run_pending", "Step 1", "python servicenow_connector.py", "Step 2",
               "python run_itsm_final_clear.py"}
    /\ pc' = "stopped"
    /\ UNCHANGED <<scheduler_vars, tool_vars, not_scheduler_vars>>

NextScheduler ==
    \/ RunPending
    \/ FetchStarted
    \/ FetchReturned
    \/ AnalysisStarted
    \/ AnalysisReturned
    \/ KeyboardInterrupt

\* a run of run_itsm_main_agent.py, of complete-itsm-agent-production.py or of
\* scheduler.py
InitRuns == InitMA \/ InitJira \/ InitScheduler

NextRuns == NextMA \/ NextJira \/ NextScheduler

SpecRuns == InitRuns /\ [][NextRuns]_vars

-----------------------------------------------------------------------------
(* jira_sample_data_creator.py and jira_sample_data_creator_fixed.py:
   JiraSampleDataCreator.create_sample_incidents *)

\* how a requests.post may end: it raises, or it returns a response with a
\* status code and a body that is the JSON of the created issue, some other
\* JSON, or no JSON at all
PostOutcomes ==
    {[status |-> 0, body |-> "post raised"]}
        \cup [status : {201, 400, 500}, body : {"issue", "other json", "not json"}]

\* what one pass of the loop adds to created_count: a 201 whose
\* response.json() returns
CreatedBy(response) ==
    IF response.status = 201 /\ response.body # "not json" THEN 1 ELSE 0

\* what one pass of the loop adds to failed_count: 1 in the else branch, and
\* 1 in the except branch, which an exception of requests.post, of
\* response.json() or of issue['key'] enters
FailedBy(response) ==
    LET in_else == IF response.status \notin {0, 201} THEN 1 ELSE 0
        in_except ==
            IF \/ response.body = "post raised"
               \/ response.status = 201 /\ response.body # "issue"
               \/ response.status = 400 /\ response.body = "not json"
            THEN 1 ELSE 0
    IN  in_else + in_except

\* create_sample_incidents(count) has been called; the fixed script first
\* looks for an issue type, the other goes straight to the loop
InitCreator ==
    /\ incident_rules = EmptyDict
    /\ change_rules = EmptyDict
    /\ github_rules = EmptyDict
    /\ rules_db = EmptyDict
    /\ incidents_data = <<>>
    /\ jira_rules = EmptyDict
    /\ csv_incidents_df = <<>>
    /\ op = "idle"
    /\ incident = NoIncident
    /\ change = NoChange
    /\ result = Raised("nothing")
    /\ pc \in {"get_available_issue_types", "for i in range(count)"}
    /\ incidents_df = <<>>
    /\ changes_df = <<>>
    /\ incident_results = <<>>
    /\ change_results = <<>>
    /\ current_time = 0
    /\ at_risk = <<>>
    /\ manager_data = EmptyDict
    /\ jira_change_rules = EmptyDict
    /\ csv_changes_df = <<>>
    /\ jira_incidents = <<>>
    /\ incident_devs = <<>>
    /\ change_devs = <<>>
    /\ reports = EmptyDict
    /\ sent = {}
    /\ fetched = <<>>
    /\ results = <<>>
    /\ historical_data = <<>>
    /\ attempts = <<>>
    /\ runs = 0
    /\ run_steps = <<>>
    /\ agent_data = <<>>
    /\ count \in 0..MaxCount
    /\ posted = <<>>
    /\ created_count = 0
    /\ failed_count = 0

\* what create_sample_incidents leaves alone
not_creator_vars ==
    <<rules, agent_fields, scheduler_vars, agent_data, jira_vars, incidents_data, op,
      incident, change, incidents_df, changes_df, incident_results, change_results,
      current_time, at_risk, manager_data>>

\* jira_sample_data_creator_fixed.py, lines 103-119: without an issue type
\* the method returns 0 before the loop
SelectIssueType ==
    /\ pc = "get_available_issue_types"
    /\ \E found \in BOOLEAN :
          IF found
          THEN pc' = "for i in range(count)" /\ result' = result
          ELSE pc' = "returned" /\ result' = [raised |-> "none", value |-> 0]
    /\ UNCHANGED <<creator_vars, not_creator_vars>>

\* one pass of `for i in range(count)`
PostIssue ==
    /\ pc = "for i in range(count)"
    /\ Len(posted) < count
    /\ \E response \in PostOutcomes :
          /\ posted' = Append(posted, response)
          /\ created_count' = created_count + CreatedBy(response)
          /\ failed_count' = failed_count + FailedBy(response)
    /\ UNCHANGED <<count, pc, result, not_creator_vars>>

\* the loop is done: the totals are printed and created_count is returned
ReturnCreatedCount ==
    /\ pc = "for i in range(count)"
    /\ Len(posted) = count
    /\ pc' = "returned"
    /\ result' = [raised |-> "none", value |-> created_count]
    /\ UNCHANGED <<creator_vars, not_creator_vars>>

NextCreator ==
    \/ SelectIssueType
    \/ PostIssue
    \/ ReturnCreatedCount

SpecCreator == InitCreator /\ [][NextCreator]_vars

-----------------------------------------------------------------------------
(* What the claims speak of *)

Returned == result.raised = "none"

IncidentCall == op \in {"analyze_incident", "Intelligent_analyze_incident"}

ChangeCall == op \in {"analyze_change", "Intelligent_analyze_change"}

\* the incident rules the called agent reads
IncidentRulesInForce ==
    IF op = "analyze_incident" THEN incident_rules ELSE github_rules.incident_rules

\* the change rules the called agent reads
ChangeRulesInForce ==
    IF op = "analyze_change" THEN change_rules ELSE github_rules.change_rules

\* the deviations of one type in the returned list
Of(type) == SelectSeq(result.deviations, LAMBDA d : d.type = type)

Count(type) == Len(Of(type))

\* the elements of seq at the indices I, in increasing order of index
Restrict(seq, I) ==
    [k \in 1..Cardinality(I) |->
        seq[CHOOSE i \in I : Cardinality({j \in I : j < i}) = k - 1]]

Range(seq) == {seq[i] : i \in DOMAIN seq}

\* the required steps of the incident's category, none for an unlisted one
RequiredStepsInForce ==
    LET key == CategoryLower(incident.Category)
        table == IncidentRulesInForce.required_steps
    IN  IF key \in DOMAIN table THEN table[key] ELSE <<>>

\* the required steps no completed step equals, in the catalog's order
ExpectedMissingSteps ==
    LET completed == Range(Split(incident.Steps_Completed))
    IN  Restrict(RequiredStepsInForce,
                 {i \in DOMAIN RequiredStepsInForce : RequiredStepsInForce[i] \notin completed})

\* resolution_hours of the incident in hand exceeds the target of its priority
OverResolutionTarget ==
    /\ incident.Resolved_Date.kind = "ts"
    /\ incident.Created_Date.kind = "ts"
    /\ TotalSeconds(incident.Resolved_Date, incident.Created_Date)
          > IncidentRulesInForce.sla[incident.Priority].resolution * SecondsPerQuarter

\* C1: analyze_incident lists an SLA_RESOLUTION_BREACH if and only if the
\* resolution took strictly longer than the resolution target of the incident's
\* priority; a resolution exactly at the target is no breach.
C1_ResolutionBreachIffOverTarget ==
    (IncidentCall /\ Returned) =>
        (Count("SLA_RESOLUTION_BREACH") >= 1) <=> OverResolutionTarget

C1_Witness_AtTargetNoBreach ==
    /\ IncidentCall
    /\ Returned
    /\ incident.Resolved_Date.kind = "ts"
    /\ TotalSeconds(incident.Resolved_Date, incident.Created_Date)
          = IncidentRulesInForce.sla[incident.Priority].resolution * SecondsPerQuarter
    /\ Count("SLA_RESOLUTION_BREACH") = 0

\* C2: the missing steps analyze_incident reports are exactly the required steps
\* of the incident's category that no completed step equals, in the order the
\* catalog declares them, and a MISSING_PROCESS_STEPS deviation is listed if and
\* only if there is such a step.
C2_MissingStepsInCatalogOrder ==
    (IncidentCall /\ Returned) =>
        /\ Count("MISSING_PROCESS_STEPS") = (IF ExpectedMissingSteps # <<>> THEN 1 ELSE 0)
        /\ \A i \in DOMAIN Of("MISSING_PROCESS_STEPS") :
              Of("MISSING_PROCESS_STEPS")[i].missing_steps = ExpectedMissingSteps

\* required [A,B,C,D] with completed [C,A] reports [B,D]
C2_Witness_SecondAndFourthMissing ==
    /\ op = "analyze_incident"
    /\ Returned
    /\ Len(RequiredStepsInForce) = 4
    /\ Split(incident.Steps_Completed) = <<RequiredStepsInForce[3], RequiredStepsInForce[1]>>
    /\ Count("MISSING_PROCESS_STEPS") = 1
    /\ Of("MISSING_PROCESS_STEPS")[1].missing_steps
          = <<RequiredStepsInForce[2], RequiredStepsInForce[4]>>

\* the steps the returned MISSING_PROCESS_STEPS deviation names
ReportedMissingSteps ==
    IF Count("MISSING_PROCESS_STEPS") = 0 THEN {}
    ELSE Range(Of("MISSING_PROCESS_STEPS")[1].missing_steps)

\* the required steps of a row of the incidents file of itsm_multiagent_rag.py
RagRequiredSteps(row) ==
    DictGet(rules_db.required_steps, RagCategoryKey(row.category), <<>>)

\* the required steps of the row no taken step equals
RagMissingExact(row) ==
    LET taken == Range(Split(row.steps_taken))
    IN  Restrict(RagRequiredSteps(row),
                 {i \in DOMAIN RagRequiredSteps(row) : RagRequiredSteps(row)[i] \notin taken})

\* the required steps of the row no taken step contains, letter case ignored
RagMissingLoose(row) ==
    LET taken == Range(Split(row.steps_taken))
    IN  Restrict(RagRequiredSteps(row),
                 {i \in DOMAIN RagRequiredSteps(row) :
                     \A step \in taken : ~IsInfix(Lower(RagRequiredSteps(row)[i]), Lower(step))})

\* the process deviations returned are those of the rows Missing finds steps
\* missing in, in row order, each naming Missing's steps
RagReportIs(Missing(_)) ==
    LET flagged == Restrict(incidents_data,
                       {i \in DOMAIN incidents_data : Missing(incidents_data[i]) # <<>>})
        reported == result.process_deviations
    IN  /\ Len(reported) = Len(flagged)
        /\ \A k \in DOMAIN reported :
              /\ reported[k].incident_id = flagged[k].incident_id
              /\ reported[k].missing_steps = JoinWith(Missing(flagged[k]), ",")

\* a required step counts as completed only when a completed step equals it
ExactInAnalyzeIncident ==
    (IncidentCall /\ Returned) =>
        ReportedMissingSteps =
            {step \in Range(RequiredStepsInForce) :
                step \notin Range(Split(incident.Steps_Completed))}

RECURSIVE SumOf(_)
SumOf(numbers) == IF numbers = <<>> THEN 0 ELSE Head(numbers) + SumOf(Tail(numbers))

JiraExcessiveReassignments(i) ==
    SumOf([k \in DOMAIN result.deviations |->
        IF result.deviations[k].id = csv_incidents_df[i].Incident_ID
        THEN Len(SelectSeq(result.deviations[k].issues,
                     LAMBDA issue : issue.type = "Excessive Reassignments"))
        ELSE 0])

\* C4: analyze_incident lists exactly one EXCESSIVE_REASSIGNMENTS deviation when
\* Reassignment_Count is greater than the catalog's max_reassignments and none
\* when it is equal to it or below.
C4_ReassignmentBoundaryStrict ==
    /\ (IncidentCall /\ Returned) =>
          Count("EXCESSIVE_REASSIGNMENTS")
              = (IF incident.Reassignment_Count > IncidentRulesInForce.max_reassignments
                 THEN 1 ELSE 0)
    /\ (op = "analyze_incident_compliance" /\ Returned) =>
          \A i \in DOMAIN csv_incidents_df :
              JiraExcessiveReassignments(i)
                  = (IF csv_incidents_df[i].Reassignment_Count > jira_rules.max_reassignments
                     THEN 1 ELSE 0)

C4_Witness_AtMaximumNone ==
    /\ IncidentCall
    /\ Returned
    /\ incident.Reassignment_Count = IncidentRulesInForce.max_reassignments
    /\ Count("EXCESSIVE_REASSIGNMENTS") = 0

IncidentKinds ==
    {"SLA_RESPONSE_BREACH", "SLA_RESOLUTION_BREACH", "MISSING_PROCESS_STEPS",
     "EXCESSIVE_REASSIGNMENTS", "MISSING_KNOWLEDGE_ARTICLE", "POOR_CUSTOMER_SATISFACTION"}

\* the kinds IntelligentAnalysisAgent.analyze_incident checks
IntelligentKinds ==
    {"SLA_RESOLUTION_BREACH", "MISSING_PROCESS_STEPS",
     "EXCESSIVE_REASSIGNMENTS", "MISSING_KNOWLEDGE_ARTICLE"}

\* the condition of one kind of deviation, on the incident in hand alone
KindDue(type) ==
    CASE type = "SLA_RESPONSE_BREACH" ->
            /\ incident.Response_Date.kind = "ts"
            /\ TotalSeconds(incident.Response_Date, incident.Created_Date)
                  > IncidentRulesInForce.sla[incident.Priority].response * SecondsPerQuarter
      [] type = "SLA_RESOLUTION_BREACH" -> OverResolutionTarget
      [] type = "MISSING_PROCESS_STEPS" -> ExpectedMissingSteps # <<>>
      [] type = "EXCESSIVE_REASSIGNMENTS" ->
            incident.Reassignment_Count > IncidentRulesInForce.max_reassignments
      [] type = "MISSING_KNOWLEDGE_ARTICLE" ->
            /\ incident.Priority \in IncidentRulesInForce.kb_required_priorities
            /\ incident.Knowledge_Article_Created = "No"
      [] type = "POOR_CUSTOMER_SATISFACTION" ->
            incident.Customer_Satisfaction = "Dissatisfied"

KindsOf(returned) == {returned.deviations[i].type : i \in DOMAIN returned.deviations}

\* a Critical incident in which exactly the conditions of the kinds S hold,
\* of a category whose required steps are steps, none of them the step other
RowWith(S, category, steps, other) ==
    [Incident_ID |-> "INC100000",
     Priority |-> "Critical",
     Category |-> category,
     Manager_Email |-> "manager1@company.com",
     Created_Date |-> Timestamp(8),
     Response_Date |-> Timestamp(8 + ResponseTarget("Critical")
                           + (IF "SLA_RESPONSE_BREACH" \in S THEN 1 ELSE 0)),
     Resolved_Date |-> ResolvedCell("Critical", 8,
                           IF "SLA_RESOLUTION_BREACH" \in S THEN "late" ELSE "at"),
     Steps_Completed |-> IF "MISSING_PROCESS_STEPS" \in S THEN other ELSE Join(steps),
     Reassignment_Count |-> IF "EXCESSIVE_REASSIGNMENTS" \in S THEN 3 ELSE 2,
     Knowledge_Article_Created |-> IF "MISSING_KNOWLEDGE_ARTICLE" \in S THEN "No" ELSE "Yes",
     Customer_Satisfaction |->
         IF "POOR_CUSTOMER_SATISFACTION" \in S THEN "Dissatisfied" ELSE "Satisfied"]

\* each kind among Performed is listed once when its own condition holds and
\* not at all otherwise, and no other kind is listed
EachKindOnItsOwn(Performed) ==
    Returned =>
        \A type \in IncidentKinds :
            Count(type) = IF type \in Performed /\ KindDue(type) THEN 1 ELSE 0

\* every subset of the six kinds is the result of analyze_incident of
\* run_itsm_analysis.py on some incident
EverySubsetOfSix ==
    \A S \in SUBSET IncidentKinds :
        KindsOf(analyze_incident(
            RowWith(S, "APPLICATION", incident_rules.required_steps.application,
                    <<"a", "a">>))) = S

\* every subset of Kinds is the result of analyze_incident of
\* run_itsm_main_agent.py on some incident
IntelligentEverySubsetOf(Kinds) ==
    \A S \in SUBSET Kinds :
        KindsOf(Intelligent_analyze_incident(
            RowWith(S, "Network", github_rules.incident_rules.required_steps.network,
                    <<"Code Review">>))) = S

RequiredApprovalsInForce ==
    LET table == ChangeRulesInForce.required_approvals
    IN  IF change.Type \in DOMAIN table THEN table[change.Type] ELSE <<>>

\* the required roles that are not among the obtained ones
ExpectedMissingRoles ==
    Range(RequiredApprovalsInForce) \ Range(Split(change.Obtained_Approvals))

\* C6: analyze_change lists a MISSING_APPROVALS deviation if and only if some
\* approval required for the change's type is not among the obtained ones; the
\* deviation has severity CRITICAL and lists exactly the missing roles, each once.
C6_MissingApprovalsIffRequiredMinusObtained ==
    (ChangeCall /\ Returned) =>
        /\ Count("MISSING_APPROVALS") = (IF ExpectedMissingRoles # {} THEN 1 ELSE 0)
        /\ \A i \in DOMAIN Of("MISSING_APPROVALS") :
              LET d == Of("MISSING_APPROVALS")[i]
              IN  /\ d.severity = "CRITICAL"
                  /\ Range(d.missing) = ExpectedMissingRoles
                  /\ Len(d.missing) = Cardinality(ExpectedMissingRoles)

\* Normal change, required {Manager, CAB}, obtained {Manager}: missing {CAB}
C6_Witness_NormalMissingCab ==
    /\ ChangeCall
    /\ Returned
    /\ change.Type = "Normal"
    /\ Split(change.Obtained_Approvals) = << RoleName("Manager") >>
    /\ Count("MISSING_APPROVALS") = 1
    /\ Of("MISSING_APPROVALS")[1].missing = << RoleName("CAB") >>
    /\ Of("MISSING_APPROVALS")[1].severity = "CRITICAL"

\* seq without its i-th element
Without(seq, i) == SubSeq(seq, 1, i - 1) \o SubSeq(seq, i + 1, Len(seq))

\* the text with one more obtained role
WithApproval(text, role) == text \o <<Sep>> \o RoleName(role)

\* C7: with one more role among the obtained approvals, or with one role less
\* among the required ones, the missing approvals are a subset of what they
\* were: a MISSING_APPROVALS deviation is never introduced, only kept or removed.
C7_ApprovalsMonotone ==
    (ChangeCall /\ Returned) =>
        LET before == MissingApprovals(RequiredApprovalsInForce, change.Obtained_Approvals)
        IN  /\ Range(before) = Range(IF Count("MISSING_APPROVALS") = 0 THEN <<>>
                                     ELSE Of("MISSING_APPROVALS")[1].missing)
            /\ \A role \in ApproverRoles :
                  Range(MissingApprovals(RequiredApprovalsInForce,
                            WithApproval(change.Obtained_Approvals, role)))
                      \subseteq Range(before)
            /\ \A i \in DOMAIN RequiredApprovalsInForce :
                  Range(MissingApprovals(Without(RequiredApprovalsInForce, i),
                            change.Obtained_Approvals))
                      \subseteq Range(before)

\* one more obtained role removes the deviation
C7_Witness_AddedRoleRemovesDeviation ==
    /\ ChangeCall
    /\ Returned
    /\ Count("MISSING_APPROVALS") = 1
    /\ \E role \in ApproverRoles :
          MissingApprovals(RequiredApprovalsInForce,
              WithApproval(change.Obtained_Approvals, role)) = <<>>

\* C8: in every returned result compliance_status is NON-COMPLIANT if and only
\* if the deviations list is non-empty, COMPLIANT otherwise, and deviation_count
\* is the length of the deviations list.
C8_StatusIffDeviations ==
    ((IncidentCall \/ ChangeCall) /\ Returned) =>
        /\ result.compliance_status \in {"COMPLIANT", "NON-COMPLIANT"}
        /\ (result.compliance_status = "NON-COMPLIANT") <=> (Len(result.deviations) > 0)
        /\ result.deviation_count = Len(result.deviations)

C8_Witness_OneDeviationNonCompliant ==
    /\ IncidentCall \/ ChangeCall
    /\ Returned
    /\ Len(result.deviations) = 1
    /\ result.compliance_status = "NON-COMPLIANT"

\* main() has the list predict_sla_breaches returned
Predicted == pc = "export_to_csv"

\* the i-th incident of the file has no Resolved_Date
Open(i) == incidents_df[i].Resolved_Date.kind # "ts"

\* Created_Date plus the resolution target of the priority, for the i-th incident
Deadline(i) ==
    incidents_df[i].Created_Date.t
        + github_rules.incident_rules.sla[incidents_df[i].Priority].resolution

\* the entries of at_risk for the i-th incident with the given status
EntriesOf(i, status) ==
    SelectSeq(at_risk, LAMBDA e : e.id = incidents_df[i].Incident_ID /\ e.status = status)

\* C9: an incident without Resolved_Date does not make analyze_incident fail
\* and gets no SLA-breach deviation from it, and predict_sla_breaches lists it
\* as AT_RISK whenever its deadline is less than the risk window away.
C9_OpenIncidentListedAtRisk ==
    /\ (/\ op = "Intelligent_analyze_incident"
        /\ incident.Resolved_Date.kind # "ts"
        /\ incident.Priority \in DOMAIN github_rules.incident_rules.sla) =>
            /\ Returned
            /\ Count("SLA_RESOLUTION_BREACH") = 0
            /\ Count("SLA_RESPONSE_BREACH") = 0
    /\ Predicted =>
          \A i \in DOMAIN incidents_df :
              (Open(i) /\ Deadline(i) - current_time < RiskWindow) =>
                  Len(EntriesOf(i, "AT_RISK")) >= 1

\* C10: predict_sla_breaches lists an incident at most once: as AT_RISK, with
\* hours_remaining, exactly when it is unresolved and its deadline is less than
\* 2 hours after now; as BREACHED, with the deadline, exactly when it is
\* resolved strictly after its deadline; and not at all otherwise.
C10_OneEntryPerIncidentByStatus ==
    Predicted =>
        \A i \in DOMAIN incidents_df :
            /\ Len(EntriesOf(i, "AT_RISK")) + Len(EntriesOf(i, "BREACHED")) <= 1
            /\ (Len(EntriesOf(i, "AT_RISK")) = 1)
                  <=> (Open(i) /\ Deadline(i) - current_time < RiskWindow)
            /\ (Len(EntriesOf(i, "BREACHED")) = 1)
                  <=> (~Open(i) /\ incidents_df[i].Resolved_Date.t > Deadline(i))
            /\ \A k \in DOMAIN at_risk :
                  at_risk[k].id = incidents_df[i].Incident_ID =>
                      /\ at_risk[k].deadline = strftime(Deadline(i))
                      /\ at_risk[k].status = "AT_RISK" =>
                            at_risk[k].hours_remaining = RoundHours(Deadline(i) - current_time)

-----------------------------------------------------------------------------
(* Reports by manager *)

\* the sum of tally[m] over the owners
RECURSIVE TotalOver(_, _)
TotalOver(tally, owners) ==
    IF owners = {} THEN 0
    ELSE LET m == CHOOSE owner \in owners : TRUE
         IN  tally[m] + TotalOver(tally, owners \ {m})

\* the managers whose report of complete-itsm-agent-production.py lists d
ReportsListing(d) ==
    {m \in DOMAIN reports :
        d \in Range(reports[m].mgr_incidents) \cup Range(reports[m].mgr_changes)}

\* the keys of manager_data under which run_itsm_main_agent.py put result r
KeysHolding(r) ==
    {m \in DOMAIN manager_data :
        r \in Range(manager_data[m].incidents) \cup Range(manager_data[m].changes)}

\* C11: once the reports are built, every evaluation result is under exactly
\* one manager, and the numbers of results per manager add up to the number
\* of results, so that no result is left out of every manager's report.
C11_ReportFanOutTotal ==
    /\ pc = "completed" =>
          /\ \A d \in Range(incident_devs) \cup Range(change_devs) :
                Cardinality(ReportsListing(d)) = 1
          /\ TotalOver([m \in DOMAIN reports |->
                           Len(reports[m].mgr_incidents) + Len(reports[m].mgr_changes)],
                       DOMAIN reports)
             = Len(incident_devs) + Len(change_devs)
    /\ pc = "summary" =>
          /\ \A r \in Range(incident_results) \cup Range(change_results) :
                Cardinality(KeysHolding(r)) = 1
          /\ TotalOver([m \in DOMAIN manager_data |->
                           Len(manager_data[m].incidents) + Len(manager_data[m].changes)],
                       DOMAIN manager_data)
             = Len(incident_results) + Len(change_results)

\* a deviation whose Manager_Email cell was empty is in no manager's report
C11_Witness_OwnerlessDeviationInNoReport ==
    /\ pc = "completed"
    /\ \E d \in Range(incident_devs) \cup Range(change_devs) :
          d.manager_email = NanEmail /\ ReportsListing(d) = {}


-----------------------------------------------------------------------------
(* Malformed records *)

\* a record without a mandatory field or with a Priority outside the four
Malformed(row) ==
    \/ row.Priority \notin {"Critical", "High", "Medium", "Low"}
    \/ row.Steps_Completed = <<>>

WellFormedIds(df) == {df[i].Incident_ID : i \in {j \in DOMAIN df : ~Malformed(df[j])}}

\* C12: a malformed record is skipped and the run goes on: main() never ends
\* on a record, and when the incidents are done their results are those of
\* the well-formed records, the skipped ones making up the row count.
C12_MalformedRecordSkipped ==
    /\ pc # "crashed"
    /\ (pc = "analyze" /\ Len(incident_results) = Len(incidents_df)) \/ pc = "complete" =>
          {incident_results[i].id : i \in DOMAIN incident_results} = WellFormedIds(incidents_df)

\* main() ended on a malformed record with a well-formed one still to come
C12_Witness_BatchAbortedBeforeGoodRecord ==
    /\ pc = "crashed"
    /\ Malformed(incident)
    /\ \E i \in DOMAIN incidents_df :
          i > Len(incident_results) + 1 /\ ~Malformed(incidents_df[i])


-----------------------------------------------------------------------------
(* Rules that could not be loaded *)

\* both rule sets of complete-itsm-agent-production.py are the fetched ones
JiraRulesLoaded ==
    jira_rules = JiraIncidentRules /\ jira_change_rules = JiraChangeRules

\* the script is past its first evaluation of tickets
TicketsEvaluated ==
    pc \in {"analyze_change_compliance", "send_professional_reports", "completed"}

\* C13: a rule source that cannot be fetched ends the run: no ticket is
\* evaluated while a rule set is empty or only one of the two is loaded.
C13_NoEvaluationWithoutRules == TicketsEvaluated => JiraRulesLoaded

\* the reports went out although the change rules were never fetched
C13_Witness_ReportedWithoutChangeRules ==
    /\ pc = "completed"
    /\ jira_change_rules = EmptyDict
    /\ change_devs # <<>>


-----------------------------------------------------------------------------
(* Priorities the source did not state *)

\* the priority names the connector that ran has a mapping entry for
RecognisedPriorities ==
    IF op = "JiraConnector" THEN JiraPriorityNames ELSE ServiceNowPriorityNames

\* C14: a record whose source priority is unrecognised or absent is rejected:
\* every row of the frame a connector hands on comes from a record whose
\* priority its mapping knows, so no Priority and no SLA target is assumed.
C14_UnknownPriorityRejected ==
    pc = "incidents_data.csv" =>
        \A i \in DOMAIN incidents_df : fetched[i].priority \in RecognisedPriorities

\* a record of priority 'Blocker' went on as a Medium incident, 48-hour target
C14_Witness_UnknownPriorityBecameMedium ==
    /\ pc = "incidents_data.csv"
    /\ \E i \in DOMAIN incidents_df :
          /\ fetched[i].priority \in {"Blocker", "6", NoPriorityKey}
          /\ incidents_df[i].Priority = "Medium"
          /\ incidents_df[i].SLA_Target_Hours = 192


-----------------------------------------------------------------------------
(* Determinism and frame *)

\* two rows of a file that differ in their identifier at most
SameIncident(a, b) == [a EXCEPT !.Incident_ID = 0] = [b EXCEPT !.Incident_ID = 0]

SameChange(a, b) == [a EXCEPT !.Change_ID = 0] = [b EXCEPT !.Change_ID = 0]

\* two results with the same deviations in the same order and the same
\* status and count
StructurallyEqual(a, b) == [a EXCEPT !.id = 0] = [b EXCEPT !.id = 0]

C16_EvaluatorsChangeNothingElse ==
    [][pc = "analyze" =>
          /\ rules' = rules
          /\ agent_fields' = agent_fields
          /\ incidents_df' = incidents_df
          /\ changes_df' = changes_df]_vars

\* all three evaluators have run, over two incidents, and the catalog is the
\* one loaded, the frames are as read and the agent has kept nothing
C16_Witness_AllEvaluatorsRan ==
    /\ pc = "export_to_csv"
    /\ Len(incident_results) = 2 /\ Len(incidents_df) = 2
    /\ Len(change_results) = 1
    /\ github_rules = GitHubRules
    /\ historical_data = <<>>


-----------------------------------------------------------------------------
(* Testing evidence, rollback plan and the severities of SLA breaches *)

\* a severity as run_itsm_analysis.py writes it
SeverityName(severity) ==
    CASE severity = "critical" -> "CRITICAL"
      [] severity = "high" -> "HIGH"
      [] severity = "medium" -> "MEDIUM"
      [] severity = "low" -> "LOW"
      [] OTHER -> severity

\* the issues of one type that the returned deviations of
\* complete-itsm-agent-production.py hold for the ticket of this id
JiraReported(id, type) ==
    LET devs == SelectSeq(result.deviations, LAMBDA d : d.id = id)
    IN  IF devs = <<>> THEN <<>>
        ELSE SelectSeq(devs[1].issues, LAMBDA issue : issue.type = type)

\* analyze_change_compliance has returned and the change rules were fetched
JiraChangeCall ==
    op = "analyze_change_compliance" /\ Returned /\ jira_change_rules = JiraChangeRules

\* the three conditions of a missing-testing deviation
TestingDue(row, testing_required_risks) ==
    /\ row.Risk_Level \in testing_required_risks
    /\ row.Testing_Required = "Yes"
    /\ row.Testing_Completed = "No"

\* C17: a change gets one missing-testing deviation, of severity HIGH, if and
\* only if its risk level is one the catalog requires testing for, testing
\* is required of it and testing was not completed; in analyze_change and
\* in analyze_change_compliance.
C17_MissingTestingIffAllThree ==
    /\ (ChangeCall /\ Returned) =>
          /\ Count("MISSING_TESTING_EVIDENCE")
                = (IF TestingDue(change, ChangeRulesInForce.testing_required_risks)
                   THEN 1 ELSE 0)
          /\ \A i \in DOMAIN Of("MISSING_TESTING_EVIDENCE") :
                Of("MISSING_TESTING_EVIDENCE")[i].severity = "HIGH"
    /\ JiraChangeCall =>
          \A i \in DOMAIN csv_changes_df :
             LET reported == JiraReported(csv_changes_df[i].Change_ID, "Testing Not Completed")
             IN  /\ Len(reported)
                       = (IF TestingDue(csv_changes_df[i],
                                        jira_change_rules.testing_required_risks)
                          THEN 1 ELSE 0)
                 /\ \A k \in DOMAIN reported : SeverityName(reported[k].severity) = "HIGH"

\* a Low-risk change that needed no testing is reported for missing testing
C17_Witness_TestingReportedThoughNotRequired ==
    /\ JiraChangeCall
    /\ \E i \in DOMAIN csv_changes_df :
          /\ csv_changes_df[i].Risk_Level = "Low"
          /\ csv_changes_df[i].Testing_Required = "No"
          /\ JiraReported(csv_changes_df[i].Change_ID, "Testing Not Completed") # <<>>

\* C18: a change gets one missing-rollback-plan deviation, of severity HIGH,
\* if and only if no rollback plan is documented, whatever its risk level,
\* its type and the other checks give; in analyze_change and in
\* analyze_change_compliance.
C18_MissingRollbackAlwaysHigh ==
    /\ (ChangeCall /\ Returned) =>
          /\ Count("MISSING_ROLLBACK_PLAN")
                = (IF change.Rollback_Plan_Documented = "No" THEN 1 ELSE 0)
          /\ \A i \in DOMAIN Of("MISSING_ROLLBACK_PLAN") :
                Of("MISSING_ROLLBACK_PLAN")[i].severity = "HIGH"
    /\ JiraChangeCall =>
          \A i \in DOMAIN csv_changes_df :
             LET reported == JiraReported(csv_changes_df[i].Change_ID, "No Rollback Plan")
             IN  /\ Len(reported)
                       = (IF csv_changes_df[i].Rollback_Plan_Documented = "No" THEN 1 ELSE 0)
                 /\ \A k \in DOMAIN reported : SeverityName(reported[k].severity) = "HIGH"

\* a missing rollback plan reported with severity medium
C18_Witness_RollbackReportedMedium ==
    /\ JiraChangeCall
    /\ \E i \in DOMAIN csv_changes_df :
          LET reported == JiraReported(csv_changes_df[i].Change_ID, "No Rollback Plan")
          IN  /\ csv_changes_df[i].Rollback_Plan_Documented = "No"
              /\ Len(reported) = 1
              /\ reported[1].severity = "medium"

\* the severity the resolution breach of an incident of this priority is due
ResolutionBreachSeverity(priority) ==
    IF priority \in {"Critical", "High"} THEN "CRITICAL" ELSE "MEDIUM"

\* C19: a resolution-SLA breach has severity CRITICAL for a Critical or High
\* incident and MEDIUM for any other, and a response-SLA breach always has
\* severity HIGH; in analyze_incident and, for the resolution breach, in
\* analyze_incident_compliance.
C19_BreachSeverityByPriority ==
    /\ (IncidentCall /\ Returned) =>
          /\ \A i \in DOMAIN Of("SLA_RESOLUTION_BREACH") :
                Of("SLA_RESOLUTION_BREACH")[i].severity
                   = ResolutionBreachSeverity(incident.Priority)
          /\ \A i \in DOMAIN Of("SLA_RESPONSE_BREACH") :
                Of("SLA_RESPONSE_BREACH")[i].severity = "HIGH"
    /\ (op = "analyze_incident_compliance" /\ Returned) =>
          \A i \in DOMAIN csv_incidents_df :
             LET reported == JiraReported(csv_incidents_df[i].Incident_ID, "SLA Breach")
             IN  \A k \in DOMAIN reported :
                    SeverityName(reported[k].severity)
                       = ResolutionBreachSeverity(csv_incidents_df[i].Priority)

\* the breach of a Critical incident reported with severity high
C19_Witness_CriticalBreachReportedHigh ==
    /\ op = "analyze_incident_compliance" /\ Returned
    /\ \E i \in DOMAIN csv_incidents_df :
          LET reported == JiraReported(csv_incidents_df[i].Incident_ID, "SLA Breach")
          IN  /\ csv_incidents_df[i].Priority = "Critical"
              /\ Len(reported) = 1
              /\ reported[1].severity = "high"


-----------------------------------------------------------------------------
(* The order of the deviation list *)

\* the types of the returned deviations, in the order of the list
TypesReturned == [i \in DOMAIN result.deviations |-> result.deviations[i].type]

\* the returned kinds are listed in this order, each once
ListedInOrder(order) ==
    TypesReturned = SelectSeq(order, LAMBDA type : type \in KindsOf(result))

\* C20 as stated: analyze_incident lists the violations present with the
\* resolution-SLA breach first, then the response-SLA breach, then missing
\* steps, reassignments, knowledge article and satisfaction.
C20_Original_ResolutionBreachFirst ==
    (IncidentCall /\ Returned) =>
        ListedInOrder(<<"SLA_RESOLUTION_BREACH", "SLA_RESPONSE_BREACH",
                        "MISSING_PROCESS_STEPS", "EXCESSIVE_REASSIGNMENTS",
                        "MISSING_KNOWLEDGE_ARTICLE", "POOR_CUSTOMER_SATISFACTION">>)

\* C20, amended: analyze_incident lists the violations present with the
\* response-SLA breach first, then the resolution-SLA breach, then missing
\* steps, reassignments, knowledge article and satisfaction.
C20_ResponseBreachFirst ==
    (IncidentCall /\ Returned) =>
        ListedInOrder(<<"SLA_RESPONSE_BREACH", "SLA_RESOLUTION_BREACH",
                        "MISSING_PROCESS_STEPS", "EXCESSIVE_REASSIGNMENTS",
                        "MISSING_KNOWLEDGE_ARTICLE", "POOR_CUSTOMER_SATISFACTION">>)

\* an incident answered and resolved late, with all six deviations: the
\* response breach is the first of the list and the resolution breach the second
C20_Witness_BothBreachesResponseFirst ==
    /\ op = "analyze_incident"
    /\ Returned
    /\ Len(result.deviations) = 6
    /\ result.deviations[1].type = "SLA_RESPONSE_BREACH"
    /\ result.deviations[2].type = "SLA_RESOLUTION_BREACH"
    /\ result.deviations[6].type = "POOR_CUSTOMER_SATISFACTION"

-----------------------------------------------------------------------------
(* The satisfaction check *)

\* C21: analyze_incident lists one POOR_CUSTOMER_SATISFACTION deviation, of
\* severity HIGH, for every incident whose Customer_Satisfaction is
\* Dissatisfied, and none for an incident with any other value.
C21_DissatisfiedIffPoorSatisfaction ==
    (IncidentCall /\ Returned) =>
        /\ Count("POOR_CUSTOMER_SATISFACTION")
              = (IF incident.Customer_Satisfaction = "Dissatisfied" THEN 1 ELSE 0)
        /\ \A i \in DOMAIN Of("POOR_CUSTOMER_SATISFACTION") :
              Of("POOR_CUSTOMER_SATISFACTION")[i].severity = "HIGH"

\* IntelligentAnalysisAgent.analyze_incident has returned for the incident of
\* a dissatisfied customer without the deviation
C21_Witness_DissatisfiedNotReported ==
    /\ op = "Intelligent_analyze_incident"
    /\ Returned
    /\ incident.Customer_Satisfaction = "Dissatisfied"
    /\ Count("POOR_CUSTOMER_SATISFACTION") = 0

-----------------------------------------------------------------------------
(* The percentage of a resolution breach *)

\* the seconds by which the incident in hand was resolved past its target
SecondsOver ==
    TotalSeconds(incident.Resolved_Date, incident.Created_Date)
       - IncidentRulesInForce.sla[incident.Priority].resolution * SecondsPerQuarter

\* tenths is (actual - expected) / expected * 100 of the unrounded hours,
\* rounded to one decimal: no tenth of a percent is nearer to the quotient
NearestTenth(tenths) ==
    LET target == IncidentRulesInForce.sla[incident.Priority].resolution * SecondsPerQuarter
        off == 1000 * SecondsOver - tenths * target
    IN  2 * off <= target /\ 2 * off >= -target

\* Scenario A: a Critical incident with a target of 4 hours resolved after 6
\* hours gets one resolution breach, of severity CRITICAL and 50.0 percent
ScenarioA ==
    (/\ incident.Priority = "Critical"
     /\ incident.Resolved_Date.kind = "ts"
     /\ IncidentRulesInForce.sla["Critical"].resolution = 16
     /\ TotalSeconds(incident.Resolved_Date, incident.Created_Date) = 24 * SecondsPerQuarter) =>
        /\ Count("SLA_RESOLUTION_BREACH") = 1
        /\ Of("SLA_RESOLUTION_BREACH")[1].severity = "CRITICAL"
        /\ Of("SLA_RESOLUTION_BREACH")[1].deviation_pct = 500

\* C22 as stated: the deviation_pct of an SLA_RESOLUTION_BREACH is
\* (actual - expected) / expected * 100 of the unrounded hours, rounded to one
\* decimal, and is strictly positive for every breach listed; a Critical
\* incident resolved after 6 hours gets one breach, CRITICAL, of 50.0 percent.
C22_Original_PercentageStrictlyPositive ==
    (IncidentCall /\ Returned) =>
        /\ \A i \in DOMAIN Of("SLA_RESOLUTION_BREACH") :
              /\ NearestTenth(Of("SLA_RESOLUTION_BREACH")[i].deviation_pct)
              /\ Of("SLA_RESOLUTION_BREACH")[i].deviation_pct > 0
        /\ ScenarioA

\* C22, amended: the deviation_pct of an SLA_RESOLUTION_BREACH is
\* (actual - expected) / expected * 100 of the unrounded hours, rounded to one
\* decimal; it is never negative, and it is 0.0 for a breach of less than a
\* twentieth of a percent of the target; a Critical incident resolved after 6
\* hours gets one breach, CRITICAL, of 50.0 percent.
C22_PercentageOfUnroundedHours ==
    (IncidentCall /\ Returned) =>
        /\ \A i \in DOMAIN Of("SLA_RESOLUTION_BREACH") :
              /\ NearestTenth(Of("SLA_RESOLUTION_BREACH")[i].deviation_pct)
              /\ Of("SLA_RESOLUTION_BREACH")[i].deviation_pct >= 0
              /\ 2000 * SecondsOver
                    < IncidentRulesInForce.sla[incident.Priority].resolution * SecondsPerQuarter
                 => Of("SLA_RESOLUTION_BREACH")[i].deviation_pct = 0
        /\ ScenarioA

\* a Critical incident resolved one second past its 4 hours: the breach is
\* listed with 0.0 percent
C22_Witness_BreachOfZeroPercent ==
    /\ IncidentCall
    /\ Returned
    /\ incident.Priority = "Critical"
    /\ SecondsOver = 1
    /\ Count("SLA_RESOLUTION_BREACH") = 1
    /\ Of("SLA_RESOLUTION_BREACH")[1].deviation_pct = 0
    /\ Of("SLA_RESOLUTION_BREACH")[1].severity = "CRITICAL"

-----------------------------------------------------------------------------
(* The three phases of a run *)

\* what a run has fetched: the tickets and the rules
Fetched ==
    <<incidents_df, changes_df, github_rules, jira_rules, jira_change_rules,
      csv_incidents_df, csv_changes_df, jira_incidents>>

\* what a run has evaluated
Evaluated == <<incident_results, change_results, at_risk, incident_devs, change_devs>>

\* every ticket fetched has been through its evaluator
AllEvaluated ==
    \/ /\ pc = "export_to_csv"
       /\ Len(incident_results) = Len(incidents_df)
       /\ Len(change_results) = Len(changes_df)
    \/ pc = "send_professional_reports"

\* a step of a run that fetches comes before every evaluation, a step that
\* evaluates fetches nothing and comes before every report, and a step that
\* reports comes after the last evaluation
PhaseStep ==
    /\ Fetched' # Fetched =>
          /\ Evaluated = << <<>>, <<>>, <<>>, <<>>, <<>> >>
          /\ Evaluated' = Evaluated
          /\ attempts' = <<>>
    /\ Evaluated' # Evaluated =>
          /\ Fetched' = Fetched
          /\ attempts' = <<>>
    /\ attempts' # attempts =>
          /\ AllEvaluated
          /\ Fetched' = Fetched
          /\ Evaluated' = Evaluated

\* the steps of a scheduled run, in the order of run_realtime_analysis
StepsOfRun ==
    << <<"python servicenow_connector.py", "started">>,
       <<"python servicenow_connector.py", "returned">>,
       <<"python run_itsm_final_clear.py", "started">>,
       <<"python run_itsm_final_clear.py", "returned">> >>

\* the current scheduled run has made the steps in order, each once, so far;
\* a run that has completed has made them all
StepsInOrder ==
    /\ Len(run_steps) <= Len(StepsOfRun)
    /\ \A i \in DOMAIN run_steps :
          <<run_steps[i].command, run_steps[i].event>> = StepsOfRun[i]
    /\ (pc = "run_pending" /\ runs > 0) => Len(run_steps) = Len(StepsOfRun)

-----------------------------------------------------------------------------
(* One email for each manager with something to be told *)

\* the results and at-risk entries main() hands to send_manager_reports
AllResults == incident_results \o change_results

\* the exchanges begun with this address
ExchangesWith(manager_email) ==
    SelectSeq(attempts, LAMBDA exchange : exchange.to = manager_email)

\* the manager has a NON-COMPLIANT result or an at-risk entry
ToBeTold(manager_email) ==
    \/ \E i \in DOMAIN AllResults :
          /\ AllResults[i].manager_email = manager_email
          /\ AllResults[i].compliance_status = "NON-COMPLIANT"
    \/ \E i \in DOMAIN at_risk : at_risk[i].manager_email = manager_email

\* the email holds nothing but this manager's own NON-COMPLIANT results and
\* at-risk entries
OwnOnly(exchange) ==
    /\ \A r \in Range(exchange.incidents) \cup Range(exchange.changes) :
          /\ r \in Range(AllResults)
          /\ r.manager_email = exchange.to
          /\ r.compliance_status = "NON-COMPLIANT"
    /\ \A e \in Range(exchange.at_risk) :
          e \in Range(at_risk) /\ e.manager_email = exchange.to

-----------------------------------------------------------------------------
(* A failed send *)

-----------------------------------------------------------------------------
(* The time standard of the priority *)

\* the loaded time standard of a row's priority
PriorityStandard(row) == rules_db.time_standards[row.priority]

\* the rows whose resolution time is over the standard of their priority by
\* more than the threshold
OverPriorityStandard ==
    Restrict(incidents_data,
             {i \in DOMAIN incidents_data :
                  100 * (incidents_data[i].resolution_time_hours - PriorityStandard(incidents_data[i]))
                      > rules_db.deviation_threshold * PriorityStandard(incidents_data[i])})

\* C26: analyze_time_deviations reports 'Time Exceeded' for exactly the rows
\* whose resolution_time_hours is over the time standard of their priority by
\* more than 20%, and expected_hours is that standard.
C26_TimeExceededIffOverPriorityStandard ==
    op = "analyze_time_deviations" =>
        LET reported == result.time_deviations
        IN  /\ Len(reported) = Len(OverPriorityStandard)
            /\ \A k \in DOMAIN reported :
                  /\ reported[k].incident_id = OverPriorityStandard[k].incident_id
                  /\ reported[k].deviation_type = "Time Exceeded"
                  /\ reported[k].expected_hours = PriorityStandard(OverPriorityStandard[k])

\* a Critical incident resolved after 15 hours, 275% over its 4 hours, is not
\* reported
C26_Witness_CriticalOverStandardNotReported ==
    /\ op = "analyze_time_deviations"
    /\ Len(incidents_data) = 1
    /\ incidents_data[1].priority = "Critical"
    /\ incidents_data[1].resolution_time_hours = 15
    /\ result.time_deviations = <<>>

-----------------------------------------------------------------------------
(* The deviation score *)

\* the steps the k-th row of the sheet took, and the standard of its category
ActualSteps(k) == Split(agent_data[k].actual_process)

StandardSteps(k) == DictGet(StandardProcesses, agent_data[k].category, <<>>)

\* C27: the total_deviation_score of an incident is never negative, and it is 0
\* exactly when the steps taken are the standard steps of the category in the
\* standard order; a skipped, extra or reordered step gives at least 1.
C27_ScoreZeroIffStandardSequence ==
    (op = "analyze_process_compliance" /\ Returned) =>
        \A k \in DOMAIN agent_data :
            LET score == result.deviation_df[k].total_deviation_score
            IN  /\ score >= 0
                /\ score = 0 <=> ActualSteps(k) = StandardSteps(k)
                /\ ActualSteps(k) # StandardSteps(k) => score >= 1

\* the standard steps taken in the other order score 2, the row after it,
\* which followed the standard, scores 0
C27_Witness_ReorderedScoresTwo ==
    /\ op = "analyze_process_compliance"
    /\ Returned
    /\ Len(agent_data) = 2
    /\ agent_data[1].category = "Network"
    /\ ActualSteps(1) = << <<"A">>, <<"a">> >>
    /\ result.deviation_df[1].missing_steps_count = 0
    /\ result.deviation_df[1].extra_steps_count = 0
    /\ result.deviation_df[1].total_deviation_score = 2
    /\ result.deviation_df[2].total_deviation_score = 0

-----------------------------------------------------------------------------
(* The completion rate *)

\* the MISSING_PROCESS_STEPS deviations of the result in hand
MissingStepsDeviations ==
    SelectSeq(result.deviations, LAMBDA d : d.type = "MISSING_PROCESS_STEPS")

\* C28: whenever analyze_incident reports MISSING_PROCESS_STEPS, the category
\* has required steps, so the divisor of completion_rate is not zero, and the
\* completion_rate is at least 0 and below 100 (it is held in tenths).
C28_CompletionRateBelowHundred ==
    (op = "analyze_incident" /\ Returned) =>
        \A k \in DOMAIN MissingStepsDeviations :
            /\ Len(get_required_steps(incident.Category)) > 0
            /\ MissingStepsDeviations[k].completion_rate >= 0
            /\ MissingStepsDeviations[k].completion_rate < 1000

\* an Application incident with the first of the two required steps entered
\* twice: the second step is missing and the completion rate is 100.0
C28_Witness_MissingStepAtHundredPercent ==
    /\ op = "analyze_incident"
    /\ Returned
    /\ incident.Category = "APPLICATION"
    /\ get_required_steps(incident.Category) = << <<"a">>, <<"A">> >>
    /\ Split(incident.Steps_Completed) = << <<"a">>, <<"a">> >>
    /\ Len(MissingStepsDeviations) = 1
    /\ MissingStepsDeviations[1].missing_steps = << <<"A">> >>
    /\ MissingStepsDeviations[1].completion_rate = 1000

-----------------------------------------------------------------------------
(* The divisor of the compliance rate *)

\* C29: main() of run_itsm_analysis.py computes the compliance rate and the
\* non-compliant percentage only over at least one analyzed record, so the
\* divisor total_items is never 0; when both files are empty it returns with
\* nothing analyzed, exported or sent.
C29_TotalItemsNeverZero ==
    /\ op = "create_email_report" =>
          /\ Returned
          /\ result.total_items = Len(incidents_df) + Len(changes_df)
          /\ result.total_items > 0
    /\ (pc # "load_csv_data" /\ incidents_df = <<>> /\ changes_df = <<>>) =>
          /\ pc = "no_data"
          /\ op = "idle"
          /\ incident_results = <<>>
          /\ change_results = <<>>
          /\ sent = {}

\* the report of a run that found no incidents and one change
C29_Witness_ReportOverOneChange ==
    /\ pc = "complete"
    /\ op = "create_email_report"
    /\ incidents_df = <<>>
    /\ Len(changes_df) = 1
    /\ result.total_items = 1

-----------------------------------------------------------------------------
(* The attempts counted *)

\* create_sample_incidents has gone through its loop and returned
LoopDone == pc = "returned" /\ Len(posted) = count /\ count > 0

\* C30: when create_sample_incidents has made its count attempts, every
\* attempt has been counted once, as created or as failed, so created_count +
\* failed_count = count, and the value returned is created_count.
C30_EveryAttemptCountedOnce ==
    LoopDone =>
        /\ created_count + failed_count = count
        /\ result.value = created_count

\* one attempt, answered 400 with a body that is not JSON, is counted as two
\* failures
C30_Witness_OneAttemptTwoFailures ==
    /\ LoopDone
    /\ count = 1
    /\ posted = << [status |-> 400, body |-> "not json"] >>
    /\ created_count = 0
    /\ failed_count = 2
    /\ result.value = 0

=============================================================================
